---- MODULE Spec2Model ----
(***************************************************************************)
(* A model of the bpx-api-client request construction and marshaling       *)
(* layer: the query encoders of the history endpoints, the wire            *)
(* enumerations, the decimal fields and the market precision derivation,   *)
(* and the request/response life cycle of the client's operations.         *)
(*                                                                         *)
(* Strings are TLA+ strings; a character is a string of length one.        *)
(* Option<T> is a sequence of length at most one: None is <<>>, Some(v)    *)
(* is <<v>>.                                                               *)
(***************************************************************************)
EXTENDS Integers, Sequences, FiniteSets, TLC

VARIABLES base_url, callers, calls, eval

vars == <<base_url, callers, calls, eval>>

-----------------------------------------------------------------------------
(* Option<T> *)

None == <<>>

Some(v) == <<v>>

IsSome(o) == Len(o) = 1

-----------------------------------------------------------------------------
(* Characters and strings *)

Lower == "abcdefghijklmnopqrstuvwxyz"

Upper == "ABCDEFGHIJKLMNOPQRSTUVWXYZ"

Digits == "0123456789"

CharAt(s, i) == SubSeq(s, i, i)

IndexIn(s, c) == CHOOSE i \in 1..Len(s) : CharAt(s, i) = c

Occurs(s, c) == \E i \in 1..Len(s) : CharAt(s, i) = c

IsUpperChar(c) == Occurs(Upper, c)

IsLowerChar(c) == Occurs(Lower, c)

IsDigitChar(c) == Occurs(Digits, c)

\* char::to_ascii_uppercase / char::to_ascii_lowercase
to_ascii_uppercase_char(c) == IF IsLowerChar(c) THEN CharAt(Upper, IndexIn(Lower, c)) ELSE c

to_ascii_lowercase_char(c) == IF IsUpperChar(c) THEN CharAt(Lower, IndexIn(Upper, c)) ELSE c

RECURSIVE to_ascii_uppercase(_)
to_ascii_uppercase(s) ==
    IF s = "" THEN ""
    ELSE to_ascii_uppercase_char(Head(s)) \o to_ascii_uppercase(Tail(s))

RECURSIVE to_ascii_lowercase(_)
to_ascii_lowercase(s) ==
    IF s = "" THEN ""
    ELSE to_ascii_lowercase_char(Head(s)) \o to_ascii_lowercase(Tail(s))

\* The position of the first occurrence of c in s, or 0.
RECURSIVE FirstIndex(_, _, _)
FirstIndex(s, c, i) ==
    IF i > Len(s) THEN 0
    ELSE IF CharAt(s, i) = c THEN i
    ELSE FirstIndex(s, c, i + 1)

\* [String]::join(sep)
RECURSIVE join(_, _)
join(vec, sep) ==
    IF Len(vec) = 0 THEN ""
    ELSE IF Len(vec) = 1 THEN vec[1]
    ELSE vec[1] \o sep \o join(Tail(vec), sep)

\* Display of an unsigned integer: its decimal digits, no sign, no padding.
RECURSIVE fmt_u64(_)
fmt_u64(n) ==
    IF n < 10 THEN CharAt(Digits, n + 1)
    ELSE fmt_u64(n \div 10) \o CharAt(Digits, (n % 10) + 1)

\* Display of a signed integer.
fmt_i64(n) == IF n < 0 THEN "-" \o fmt_u64(0 - n) ELSE fmt_u64(n)

RangeOf(seq) == {seq[i] : i \in 1..Len(seq)}

-----------------------------------------------------------------------------
(* Wire enumerations: the variants in declaration order, the serde         *)
(* rename_all rule and the strum serialize_all rule of each.               *)

\* MarketType with the rename rule of the other enumerations.
MarketType_PascalCase ==
    [name |-> "MarketType", serde |-> "PascalCase", strum |-> "PascalCase",
     variants |-> <<"Spot", "Perp", "Iperp", "Dated", "Prediction", "Rfq">>]

MarketType ==
    [name |-> "MarketType", serde |-> "UPPERCASE", strum |-> "UPPERCASE",
     variants |-> <<"Spot", "Perp", "Iperp", "Dated", "Prediction", "Rfq">>]

OrderBookState ==
    [name |-> "OrderBookState", serde |-> "PascalCase", strum |-> "PascalCase",
     variants |-> <<"Open", "Closed", "CancelOnly", "LimitOnly", "PostOnly">>]

FillType ==
    [name |-> "FillType", serde |-> "PascalCase", strum |-> "PascalCase",
     variants |-> <<"User", "BookLiquidation", "Adl", "Backstop", "Liquidation",
                    "AllLiquidation", "CollateralConversion",
                    "CollateralConversionAndSpotLiquidation">>]

SystemOrderType ==
    [name |-> "SystemOrderType", serde |-> "PascalCase", strum |-> "PascalCase",
     variants |-> <<"CollateralConversion", "FutureExpiry", "LiquidatePositionOnAdl",
                    "LiquidatePositionOnBook", "LiquidatePositionOnBackstop",
                    "OrderBookClosed">>]

OrderExpiryReason ==
    [name |-> "OrderExpiryReason", serde |-> "PascalCase", strum |-> "PascalCase",
     variants |-> <<"AccountTradingSuspended", "BorrowRequiresLendRedeem", "FillOrKill",
                    "InsufficientBorrowableQuantity", "InsufficientFunds",
                    "InsufficientLiquidity", "InvalidPrice", "InvalidQuantity",
                    "ImmediateOrCancel", "InsufficientMargin", "Liquidation",
                    "NegativeEquity", "PostOnlyMode", "PostOnlyTaker", "PriceOutOfBounds",
                    "ReduceOnlyNotReduced", "SelfTradePrevention", "StopWithoutPosition",
                    "PriceImpact", "Unknown", "UserPermissions",
                    "MaxStopOrdersPerPosition", "PositionLimit",
                    "SlippageToleranceExceeded">>]

HistoricOrderType ==
    [name |-> "HistoricOrderType", serde |-> "PascalCase", strum |-> "PascalCase",
     variants |-> <<"Limit", "Market">>]

SortDirection ==
    [name |-> "SortDirection", serde |-> "PascalCase", strum |-> "PascalCase",
     variants |-> <<"Asc", "Desc">>]

StrategyCancelReason ==
    [name |-> "StrategyCancelReason", serde |-> "PascalCase", strum |-> "PascalCase",
     variants |-> <<"Expired", "FillOrKill", "InsufficientBorrowableQuantity",
                    "InsufficientFunds", "InsufficientLiquidity", "InvalidPrice",
                    "InvalidQuantity", "InsufficientMargin", "Liquidation",
                    "PriceOutOfBounds", "ReduceOnlyNotReduced", "SelfTradePrevention",
                    "Unknown", "UserPermissions">>]

StrategyStatus ==
    [name |-> "StrategyStatus", serde |-> "PascalCase", strum |-> "PascalCase",
     variants |-> <<"Running", "Completed", "Cancelled", "Terminated">>]

BorrowLendMarketState ==
    [name |-> "BorrowLendMarketState", serde |-> "PascalCase", strum |-> "PascalCase",
     variants |-> <<"Open", "Closed", "RepayOnly">>]

\* PositionUpdateType derives serde only (no strum Display / EnumString).
PositionUpdateType ==
    [name |-> "PositionUpdateType", serde |-> "camelCase", strum |-> "none",
     variants |-> <<"PositionAdjusted", "PositionOpened", "PositionClosed">>]

\* The enumerations that derive both serde and strum.
WireEnums ==
    {MarketType, OrderBookState, FillType, SystemOrderType, OrderExpiryReason,
     HistoricOrderType, SortDirection, StrategyCancelReason, StrategyStatus,
     BorrowLendMarketState}

AllEnums == WireEnums \cup {PositionUpdateType}

\* The status / reason / type enumerations of the REST records.
StatusEnums == WireEnums \ {MarketType}

VariantsOf(e) == RangeOf(e.variants)

\* serde's rename_all applied to a variant identifier (identifiers are
\* written in PascalCase, so PascalCase leaves them unchanged).
serde_rename_variant(rule, ident) ==
    CASE rule = "PascalCase" -> ident
      [] rule = "UPPERCASE" -> to_ascii_uppercase(ident)
      [] rule = "lowercase" -> to_ascii_lowercase(ident)
      [] rule = "camelCase" -> to_ascii_lowercase_char(Head(ident)) \o Tail(ident)
      [] OTHER -> ident

\* heck's word boundaries inside an identifier: position i starts a word when
\* it is the first character, an upper-case letter after a lower-case letter
\* or digit, or the last upper-case letter of a run followed by a lower one.
WordStart(s, i) ==
    \/ i = 1
    \/ /\ IsUpperChar(CharAt(s, i))
       /\ \/ IsLowerChar(CharAt(s, i - 1))
          \/ IsDigitChar(CharAt(s, i - 1))
          \/ /\ IsUpperChar(CharAt(s, i - 1))
             /\ i < Len(s)
             /\ IsLowerChar(CharAt(s, i + 1))

\* heck::ToUpperCamelCase: every word capitalised, the rest lower-case.
RECURSIVE to_upper_camel_case_from(_, _)
to_upper_camel_case_from(s, i) ==
    IF i > Len(s) THEN ""
    ELSE (IF WordStart(s, i) THEN to_ascii_uppercase_char(CharAt(s, i))
                             ELSE to_ascii_lowercase_char(CharAt(s, i)))
         \o to_upper_camel_case_from(s, i + 1)

to_upper_camel_case(s) == to_upper_camel_case_from(s, 1)

\* strum's serialize_all applied to a variant identifier.
strum_rename_variant(rule, ident) ==
    CASE rule = "PascalCase" -> to_upper_camel_case(ident)
      [] rule = "UPPERCASE" -> to_ascii_uppercase(ident)
      [] rule = "lowercase" -> to_ascii_lowercase(ident)
      [] OTHER -> ident

\* Results of fallible conversions.
Ok(v) == [kind |-> "Ok", value |-> v]

Err(k, d) == [kind |-> k, detail |-> d]

IsOk(r) == r.kind = "Ok"

\* A serializer that writes the variant identifier without renaming it.
serde_serialize_unrenamed(e, v) == v

\* serde Serialize of a unit variant: its renamed name as a JSON string.
serde_serialize(e, v) == serde_rename_variant(e.serde, v)

\* serde Deserialize of a unit variant: the generated visitor matches the
\* string against the renamed names, in declaration order, and fails with
\* unknown_variant otherwise.
RECURSIVE serde_match_from(_, _, _)
serde_match_from(e, s, i) ==
    IF i > Len(e.variants) THEN Err("UnknownVariant", s)
    ELSE IF serde_rename_variant(e.serde, e.variants[i]) = s THEN Ok(e.variants[i])
    ELSE serde_match_from(e, s, i + 1)

\* A decoder that matches the renamed names without regard to case.
RECURSIVE serde_match_any_case_from(_, _, _)
serde_match_any_case_from(e, s, i) ==
    IF i > Len(e.variants) THEN Err("UnknownVariant", s)
    ELSE IF to_ascii_uppercase(serde_rename_variant(e.serde, e.variants[i]))
                = to_ascii_uppercase(s)
    THEN Ok(e.variants[i])
    ELSE serde_match_any_case_from(e, s, i + 1)

serde_deserialize_any_case(e, s) == serde_match_any_case_from(e, s, 1)

serde_deserialize(e, s) == serde_match_from(e, s, 1)

\* A Display that writes the variant identifier: serialize_all is missing.
strum_display_unrenamed(e, v) == v

\* strum Display.
strum_display(e, v) == strum_rename_variant(e.strum, v)

\* strum EnumString (FromStr): exact match, VariantNotFound otherwise.
RECURSIVE strum_match_from(_, _, _)
strum_match_from(e, s, i) ==
    IF i > Len(e.variants) THEN Err("UnknownVariant", s)
    ELSE IF strum_rename_variant(e.strum, e.variants[i]) = s THEN Ok(e.variants[i])
    ELSE strum_match_from(e, s, i + 1)

strum_from_str(e, s) == strum_match_from(e, s, 1)

-----------------------------------------------------------------------------
(* Search-parameter structures and the inputs the model draws them from.   *)

\* The longest caller-chosen string the model enumerates.
MaxStrLen == 1

\* The largest time filter value the model enumerates.
MaxTime == 1

\* A letter and the two characters that delimit a query string.
StrAlphabet == {"A", "&", "="}

RECURSIVE StringsUpTo(_)
StringsUpTo(n) ==
    IF n = 0 THEN {""}
    ELSE LET shorter == StringsUpTo(n - 1)
         IN  shorter \cup {s \o c : s \in shorter, c \in StrAlphabet}

\* Caller-chosen strings: every string over StrAlphabet up to MaxStrLen, a
\* plain market symbol, and a value that spells a further key=value pair.
ArbitraryStrings == StringsUpTo(MaxStrLen) \cup {"SOL_USDC", "X&limit=5"}

PlainStrings == {"SOL_USDC"}

OptionOf(S) == {None} \cup {Some(v) : v \in S}

TimeValues == 0..MaxTime

LimitValues == {50, 100}

OffsetValues == {0}

FillTypeValues == {"User", "CollateralConversion"}

MarketTypeValues == {"Spot", "Perp"}

SortDirectionValues == {"Asc", "Desc"}

\* struct FillHistorySearchParams, fields in declaration order.
FillHistoryFields ==
    <<"order_id", "strategy_id", "from", "to", "symbol", "limit", "offset",
      "fill_type", "market_type", "sort_direction">>

\* struct OrderHistorySearchParams, fields in declaration order.
OrderHistoryFields ==
    <<"order_id", "strategy_id", "symbol", "limit", "offset", "market_type",
      "sort_direction">>

\* struct StrategyHistorySearchParams, fields in declaration order.
StrategyHistoryFields ==
    <<"strategy_id", "symbol", "limit", "offset", "market_type", "sort_direction">>

FillHistorySearchParamsSet ==
    [order_id : OptionOf({"7"}), strategy_id : OptionOf({"9"}),
     from : OptionOf({0}), to : OptionOf({MaxTime}),
     symbol : OptionOf(ArbitraryStrings),
     limit : OptionOf(LimitValues), offset : OptionOf(OffsetValues),
     fill_type : OptionOf({"CollateralConversion"}),
     market_type : OptionOf({"Perp"}),
     sort_direction : OptionOf({"Desc"})]

OrderHistorySearchParamsSet ==
    [order_id : OptionOf(ArbitraryStrings), strategy_id : OptionOf({"9"}),
     symbol : OptionOf(PlainStrings),
     limit : OptionOf(LimitValues), offset : OptionOf(OffsetValues),
     market_type : OptionOf(MarketTypeValues),
     sort_direction : OptionOf(SortDirectionValues)]

StrategyHistorySearchParamsSet ==
    [strategy_id : OptionOf(ArbitraryStrings), symbol : OptionOf(PlainStrings),
     limit : OptionOf(LimitValues), offset : OptionOf(OffsetValues),
     market_type : OptionOf(MarketTypeValues),
     sort_direction : OptionOf(SortDirectionValues)]

-----------------------------------------------------------------------------
(* Endpoint catalog *)

API_FILL_HISTORY == "/wapi/v1/history/fills"

API_ORDER_HISTORY == "/wapi/v1/history/orders"

API_STRATEGY_HISTORY == "/wapi/v1/history/strategies"

-----------------------------------------------------------------------------
(* Query encoders of the history endpoints *)

\* An encoder that writes the decode defaults of limit and offset when they
\* are unset.
get_fill_history_query_vec_defaulting(p) ==
       (IF IsSome(p.order_id) THEN <<"order_id=" \o p.order_id[1]>> ELSE <<>>)
    \o (IF IsSome(p.strategy_id) THEN <<"strategy_id=" \o p.strategy_id[1]>> ELSE <<>>)
    \o (IF IsSome(p.from) THEN <<"from=" \o fmt_i64(p.from[1])>> ELSE <<>>)
    \o (IF IsSome(p.to) THEN <<"to=" \o fmt_i64(p.to[1])>> ELSE <<>>)
    \o (IF IsSome(p.symbol) THEN <<"symbol=" \o p.symbol[1]>> ELSE <<>>)
    \o <<"limit=" \o fmt_u64(IF IsSome(p.limit) THEN p.limit[1] ELSE 100)>>
    \o <<"offset=" \o fmt_u64(IF IsSome(p.offset) THEN p.offset[1] ELSE 0)>>
    \o (IF IsSome(p.fill_type)
        THEN <<"fill_type=" \o strum_display(FillType, p.fill_type[1])>> ELSE <<>>)
    \o (IF IsSome(p.market_type)
        THEN <<"market_type=" \o strum_display(MarketType, p.market_type[1])>> ELSE <<>>)
    \o (IF IsSome(p.sort_direction)
        THEN <<"sort_direction=" \o strum_display(SortDirection, p.sort_direction[1])>>
        ELSE <<>>)

\* get_fill_history: the conditional pushes onto query_vec, in code order.
get_fill_history_query_vec(p) ==
       (IF IsSome(p.order_id) THEN <<"order_id=" \o p.order_id[1]>> ELSE <<>>)
    \o (IF IsSome(p.strategy_id) THEN <<"strategy_id=" \o p.strategy_id[1]>> ELSE <<>>)
    \o (IF IsSome(p.from) THEN <<"from=" \o fmt_i64(p.from[1])>> ELSE <<>>)
    \o (IF IsSome(p.to) THEN <<"to=" \o fmt_i64(p.to[1])>> ELSE <<>>)
    \o (IF IsSome(p.symbol) THEN <<"symbol=" \o p.symbol[1]>> ELSE <<>>)
    \o (IF IsSome(p.limit) THEN <<"limit=" \o fmt_u64(p.limit[1])>> ELSE <<>>)
    \o (IF IsSome(p.offset) THEN <<"offset=" \o fmt_u64(p.offset[1])>> ELSE <<>>)
    \o (IF IsSome(p.fill_type)
        THEN <<"fill_type=" \o strum_display(FillType, p.fill_type[1])>> ELSE <<>>)
    \o (IF IsSome(p.market_type)
        THEN <<"market_type=" \o strum_display(MarketType, p.market_type[1])>> ELSE <<>>)
    \o (IF IsSome(p.sort_direction)
        THEN <<"sort_direction=" \o strum_display(SortDirection, p.sort_direction[1])>>
        ELSE <<>>)

get_fill_history_query_string(query_vec) ==
    IF Len(query_vec) = 0 THEN "" ELSE "?" \o join(query_vec, "&")

get_fill_history_url(base, p) ==
    base \o API_FILL_HISTORY \o get_fill_history_query_string(get_fill_history_query_vec(p))

\* get_order_history
get_order_history_query_vec(p) ==
       (IF IsSome(p.order_id) THEN <<"order_id=" \o p.order_id[1]>> ELSE <<>>)
    \o (IF IsSome(p.strategy_id) THEN <<"strategy_id=" \o p.strategy_id[1]>> ELSE <<>>)
    \o (IF IsSome(p.symbol) THEN <<"symbol=" \o p.symbol[1]>> ELSE <<>>)
    \o (IF IsSome(p.limit) THEN <<"limit=" \o fmt_u64(p.limit[1])>> ELSE <<>>)
    \o (IF IsSome(p.offset) THEN <<"offset=" \o fmt_u64(p.offset[1])>> ELSE <<>>)
    \o (IF IsSome(p.market_type)
        THEN <<"market_type=" \o strum_display(MarketType, p.market_type[1])>> ELSE <<>>)
    \o (IF IsSome(p.sort_direction)
        THEN <<"sort_direction=" \o strum_display(SortDirection, p.sort_direction[1])>>
        ELSE <<>>)

\* A query string that writes the '?' even when nothing follows it.
query_string_always_marked(query_vec) == "?" \o join(query_vec, "&")

get_order_history_query_string(query_vec) ==
    IF Len(query_vec) = 0 THEN "" ELSE "?" \o join(query_vec, "&")

get_order_history_url(base, p) ==
    base \o API_ORDER_HISTORY
         \o get_order_history_query_string(get_order_history_query_vec(p))

\* A strategy-history query whose symbol is pushed before its strategy_id.
strategy_history_query_vec_symbol_first(p) ==
       (IF IsSome(p.symbol) THEN <<"symbol=" \o p.symbol[1]>> ELSE <<>>)
    \o (IF IsSome(p.strategy_id) THEN <<"strategy_id=" \o p.strategy_id[1]>> ELSE <<>>)
    \o (IF IsSome(p.limit) THEN <<"limit=" \o fmt_u64(p.limit[1])>> ELSE <<>>)
    \o (IF IsSome(p.offset) THEN <<"offset=" \o fmt_u64(p.offset[1])>> ELSE <<>>)
    \o (IF IsSome(p.market_type)
        THEN <<"market_type=" \o strum_display(MarketType, p.market_type[1])>> ELSE <<>>)
    \o (IF IsSome(p.sort_direction)
        THEN <<"sort_direction=" \o strum_display(SortDirection, p.sort_direction[1])>>
        ELSE <<>>)

\* get_strategy_history
get_strategy_history_query_vec(p) ==
       (IF IsSome(p.strategy_id) THEN <<"strategy_id=" \o p.strategy_id[1]>> ELSE <<>>)
    \o (IF IsSome(p.symbol) THEN <<"symbol=" \o p.symbol[1]>> ELSE <<>>)
    \o (IF IsSome(p.limit) THEN <<"limit=" \o fmt_u64(p.limit[1])>> ELSE <<>>)
    \o (IF IsSome(p.offset) THEN <<"offset=" \o fmt_u64(p.offset[1])>> ELSE <<>>)
    \o (IF IsSome(p.market_type)
        THEN <<"market_type=" \o strum_display(MarketType, p.market_type[1])>> ELSE <<>>)
    \o (IF IsSome(p.sort_direction)
        THEN <<"sort_direction=" \o strum_display(SortDirection, p.sort_direction[1])>>
        ELSE <<>>)

get_strategy_history_query_string(query_vec) ==
    IF Len(query_vec) = 0 THEN "" ELSE "?" \o join(query_vec, "&")

get_strategy_history_url(base, p) ==
    base \o API_STRATEGY_HISTORY
         \o get_strategy_history_query_string(get_strategy_history_query_vec(p))

-----------------------------------------------------------------------------
(* rust_decimal::Decimal: a sign, a 96-bit unsigned mantissa and a scale   *)
(* (the number of fractional digits) between 0 and 28.  The mantissa is    *)
(* held as its string of decimal digits, without leading zeros.            *)

\* The largest scale a Decimal can have.
Decimal_MAX_SCALE == 28

\* 2^96 - 1, the largest mantissa.
Decimal_MAX_MANTISSA == "79228162514264337593543950335"

DigitValue(c) == IndexIn(Digits, c) - 1

RECURSIVE StripLeadingZeros(_)
StripLeadingZeros(d) ==
    IF Len(d) > 1 /\ Head(d) = "0" THEN StripLeadingZeros(Tail(d)) ELSE d

\* a < b for two digit strings of the same length.
RECURSIVE DigitsLessSameLen(_, _)
DigitsLessSameLen(a, b) ==
    IF a = "" THEN FALSE
    ELSE IF Head(a) # Head(b) THEN DigitValue(Head(a)) < DigitValue(Head(b))
    ELSE DigitsLessSameLen(Tail(a), Tail(b))

\* a <= b for two digit strings without leading zeros.
DigitsLeq(a, b) ==
    \/ Len(a) < Len(b)
    \/ Len(a) = Len(b) /\ (a = b \/ DigitsLessSameLen(a, b))

\* d + 1 on a digit string.
RECURSIVE IncDigits(_)
IncDigits(d) ==
    IF d = "" THEN "1"
    ELSE LET init == SubSeq(d, 1, Len(d) - 1)
             last == CharAt(d, Len(d))
         IN  IF last = "9" THEN IncDigits(init) \o "0"
             ELSE init \o CharAt(Digits, DigitValue(last) + 2)

\* (d + 4) / 10 on a digit string: the carry step of the parser's rounding.
AddFourDivTen(d) ==
    LET init == IF Len(d) = 1 THEN "0" ELSE SubSeq(d, 1, Len(d) - 1)
    IN  IF DigitValue(CharAt(d, Len(d))) >= 6 THEN IncDigits(init) ELSE init

FitsMantissa(d) == DigitsLeq(StripLeadingZeros(d), Decimal_MAX_MANTISSA)

IsDigitString(s) == \A i \in 1..Len(s) : IsDigitChar(CharAt(s, i))

\* The parser's rounding when a fractional digit no longer fits: the
\* mantissa read so far is rounded half up on that digit, and the digits
\* after it are not read.
maybe_round(neg, data, digit, scale, text) ==
    LET up == IF DigitValue(digit) >= 5 THEN IncDigits(data) ELSE data
    IN  IF FitsMantissa(up)
        THEN Ok([neg |-> neg, digits |-> StripLeadingZeros(up), scale |-> scale])
        ELSE IF scale = 0 THEN Err("InvalidDecimal", text)
        ELSE Ok([neg |-> neg, digits |-> StripLeadingZeros(AddFourDivTen(up)),
                 scale |-> scale - 1])

\* The digit loop of the parser: the digits of the integer part, then those
\* of the fractional part, one at a time from the left.
RECURSIVE parse_digits(_, _, _, _, _, _)
parse_digits(neg, data, scale, int, frac, text) ==
    IF int # ""
    THEN IF FitsMantissa(data \o Head(int))
         THEN parse_digits(neg, data \o Head(int), scale, Tail(int), frac, text)
         ELSE Err("InvalidDecimal", text)
    ELSE IF frac # ""
    THEN IF scale >= Decimal_MAX_SCALE \/ ~FitsMantissa(data \o Head(frac))
         THEN maybe_round(neg, data, Head(frac), scale, text)
         ELSE parse_digits(neg, data \o Head(frac), scale + 1, int, Tail(frac), text)
    ELSE Ok([neg |-> neg, digits |-> StripLeadingZeros(data), scale |-> scale])

\* Decimal::from_str: an optional sign, digits, an optional point and
\* digits.  The scale is the number of fractional digits read.
Decimal_from_str(s) ==
    LET neg == Len(s) > 0 /\ Head(s) = "-"
        body == IF Len(s) > 0 /\ Head(s) \in {"-", "+"} THEN Tail(s) ELSE s
        dot == FirstIndex(body, ".", 1)
        int == IF dot = 0 THEN body ELSE SubSeq(body, 1, dot - 1)
        frac == IF dot = 0 THEN "" ELSE SubSeq(body, dot + 1, Len(body))
    IN  IF ~IsDigitString(int) \/ ~IsDigitString(frac) \/ Len(int) + Len(frac) = 0
        THEN Err("InvalidDecimal", s)
        ELSE parse_digits(neg, "0", 0, int, frac, s)

RECURSIVE Zeros(_)
Zeros(n) == IF n <= 0 THEN "" ELSE "0" \o Zeros(n - 1)

\* A Display that drops the zeros at the end of the fractional part.
RECURSIVE TrimTrailingZeros(_)
TrimTrailingZeros(frac) ==
    IF frac = "" THEN ""
    ELSE IF CharAt(frac, Len(frac)) = "0"
    THEN TrimTrailingZeros(SubSeq(frac, 1, Len(frac) - 1))
    ELSE frac

Decimal_to_string_normalized(d) ==
    LET padded == Zeros(d.scale + 1 - Len(d.digits)) \o d.digits
        int == SubSeq(padded, 1, Len(padded) - d.scale)
        frac == TrimTrailingZeros(SubSeq(padded, Len(padded) - d.scale + 1, Len(padded)))
    IN  (IF d.neg THEN "-" ELSE "") \o int \o (IF frac # "" THEN "." \o frac ELSE "")

\* Display for Decimal: every digit of the mantissa, the point before the
\* last `scale` digits, zero-padded so that one digit precedes the point.
Decimal_to_string(d) ==
    LET padded == Zeros(d.scale + 1 - Len(d.digits)) \o d.digits
        int == SubSeq(padded, 1, Len(padded) - d.scale)
        frac == SubSeq(padded, Len(padded) - d.scale + 1, Len(padded))
    IN  (IF d.neg THEN "-" ELSE "")
        \o int \o (IF d.scale > 0 THEN "." \o frac ELSE "")

\* Decimal::scale
Decimal_scale(d) == d.scale

\* serde for Decimal fields: read from a JSON string, written as a JSON string.
Decimal_deserialize(s) == Decimal_from_str(s)

Decimal_serialize(d) == Decimal_to_string(d)

-----------------------------------------------------------------------------
(* Market and its precision derivation *)

\* Market, reduced to its identifier, its type and its filters.
MakeMarket(symbol, min_price, tick_size, min_quantity, step_size) ==
    [symbol |-> symbol,
     filters |-> [price |-> [min_price |-> min_price, tick_size |-> tick_size],
                  quantity |-> [min_quantity |-> min_quantity, step_size |-> step_size]]]

\* A price precision read from the quantity filter.
price_decimal_places_of_step_size(market) ==
    Decimal_scale(market.filters.quantity.step_size)

\* Market::price_decimal_places
price_decimal_places(market) == Decimal_scale(market.filters.price.tick_size)

\* Market::quantity_decimal_places
quantity_decimal_places(market) == Decimal_scale(market.filters.quantity.step_size)

-----------------------------------------------------------------------------
(* The other endpoints: paths and request URLs *)

API_ACCOUNT == "/api/v1/account"

API_ACCOUNT_MAX_BORROW == "/api/v1/account/limits/borrow"

API_ACCOUNT_MAX_ORDER == "/api/v1/account/limits/order"

API_ACCOUNT_MAX_WITHDRAWAL == "/api/v1/account/limits/withdrawal"

API_ACCOUNT_CONVERT_DUST == "/api/v1/account/convertDust"

API_ASSETS == "/api/v1/assets"

API_MARKET == "/api/v1/market"

\* The list of markets served under the path of the single market.
API_MARKETS_as_market == "/api/v1/market"

API_MARKETS == "/api/v1/markets"

API_TICKER == "/api/v1/ticker"

API_TICKERS == "/api/v1/tickers"

API_DEPTH == "/api/v1/depth"

API_KLINES == "/api/v1/klines"

API_FUNDING == "/api/v1/fundingRates"

API_MARK_PRICES == "/api/v1/markPrices"

API_FUTURES_POSITION == "/api/v1/position"

API_BORROW_LEND_POSITIONS == "/api/v1/borrowLend/positions"

API_BORROW_LEND_MARKETS == "/api/v1/borrowLend/markets"

\* Display of bool.
fmt_bool(b) == IF b THEN "true" ELSE "false"

\* Display of order::Side, KlineInterval and KlinePriceType: the wire names
\* of the exchange API.
fmt_Side(side) == side

fmt_KlineInterval(interval) == interval

fmt_KlinePriceType(price_type) == price_type

SideValues == {"Bid", "Ask"}

KlineIntervalValues == {"1m", "1h"}

KlinePriceTypeValues == {"Last", "Mark"}

get_account_max_borrow_url(base, symbol) ==
    base \o API_ACCOUNT_MAX_BORROW \o "?symbol=" \o symbol

get_account_max_order_quantity_url(base, a) ==
    base \o API_ACCOUNT_MAX_ORDER \o "?symbol=" \o a.symbol \o "&side=" \o fmt_Side(a.side)
    \o (IF IsSome(a.price) THEN "&price=" \o Decimal_to_string(a.price[1]) ELSE "")
    \o (IF IsSome(a.reduce_only) THEN "&reduceOnly=" \o fmt_bool(a.reduce_only[1]) ELSE "")
    \o (IF IsSome(a.auto_borrow) THEN "&autoBorrow=" \o fmt_bool(a.auto_borrow[1]) ELSE "")
    \o (IF IsSome(a.auto_borrow_repay)
        THEN "&autoBorrowRepay=" \o fmt_bool(a.auto_borrow_repay[1]) ELSE "")
    \o (IF IsSome(a.auto_lend_redeem)
        THEN "&autoLendRedeem=" \o fmt_bool(a.auto_lend_redeem[1]) ELSE "")

\* The two optional parameters of the withdrawal limit in the other order.
get_account_max_withdrawal_url_redeem_first(base, a) ==
    base \o API_ACCOUNT_MAX_WITHDRAWAL \o "?symbol=" \o a.symbol
    \o (IF IsSome(a.auto_lend_redeem)
        THEN "&autoLendRedeem=" \o fmt_bool(a.auto_lend_redeem[1]) ELSE "")
    \o (IF IsSome(a.auto_borrow) THEN "&autoBorrow=" \o fmt_bool(a.auto_borrow[1]) ELSE "")

get_account_max_withdrawal_url(base, a) ==
    base \o API_ACCOUNT_MAX_WITHDRAWAL \o "?symbol=" \o a.symbol
    \o (IF IsSome(a.auto_borrow) THEN "&autoBorrow=" \o fmt_bool(a.auto_borrow[1]) ELSE "")
    \o (IF IsSome(a.auto_lend_redeem)
        THEN "&autoLendRedeem=" \o fmt_bool(a.auto_lend_redeem[1]) ELSE "")

get_market_url(base, symbol) == base \o API_MARKET \o "?symbol=" \o symbol

get_ticker_url(base, symbol) == base \o API_TICKER \o "?symbol=" \o symbol

get_order_book_depth_url(base, symbol) == base \o API_DEPTH \o "?symbol=" \o symbol

get_funding_interval_rates_url(base, symbol) == base \o API_FUNDING \o "?symbol=" \o symbol

get_k_lines_url(base, a) ==
    base \o API_KLINES \o "?symbol=" \o a.symbol
    \o "&interval=" \o fmt_KlineInterval(a.interval)
    \o "&startTime=" \o fmt_i64(a.start_time)
    \o (IF IsSome(a.end_time) THEN "&endTime=" \o fmt_i64(a.end_time[1]) ELSE "")
    \o (IF IsSome(a.price_type)
        THEN "&priceType=" \o fmt_KlinePriceType(a.price_type[1]) ELSE "")

get_open_future_positions_url(base, symbol) ==
    base \o API_FUTURES_POSITION
    \o (IF IsSome(symbol) THEN "?symbol=" \o symbol[1] ELSE "")

-----------------------------------------------------------------------------
(* JSON documents: [t, v] with t the kind of the value.  A string carries  *)
(* its text, a number its token as written, an array a sequence and an     *)
(* object a function from its keys to documents.                          *)

JNull == [t |-> "null", v |-> ""]

JStr(s) == [t |-> "str", v |-> s]

JNum(token) == [t |-> "num", v |-> token]

JArr(elems) == [t |-> "arr", v |-> elems]

JObj(members) == [t |-> "obj", v |-> members]

\* A body that is not JSON at all.
NotJson(text) == [t |-> "invalid", v |-> text]

EmptyObject == <<>>

\* The value of a string of digits.
RECURSIVE ParseDigits(_, _)
ParseDigits(s, acc) ==
    IF s = "" THEN acc ELSE ParseDigits(Tail(s), acc * 10 + DigitValue(Head(s)))

\* serde_json into String / u64 / i64 / a unit-variant enumeration.
deserialize_string(j) ==
    IF j.t = "str" THEN Ok(j.v) ELSE Err("DecodeError", "invalid type")

deserialize_u64(j) ==
    IF j.t = "num" /\ Len(j.v) > 0 /\ IsDigitString(j.v)
    THEN Ok(ParseDigits(j.v, 0)) ELSE Err("DecodeError", "invalid type")

deserialize_i64(j) ==
    IF j.t = "num" /\ Len(j.v) > 0 /\ IsDigitString(j.v) THEN Ok(ParseDigits(j.v, 0))
    ELSE IF j.t = "num" /\ Len(j.v) > 1 /\ Head(j.v) = "-" /\ IsDigitString(Tail(j.v))
    THEN Ok(0 - ParseDigits(Tail(j.v), 0))
    ELSE Err("DecodeError", "invalid type")

deserialize_enum(e, j) ==
    IF j.t = "str" THEN serde_deserialize(e, j.v) ELSE Err("DecodeError", "invalid type")

\* serde's rename_all = "camelCase" applied to a snake_case field name.
RECURSIVE camel_case_from(_, _, _)
camel_case_from(s, i, capitalize) ==
    IF i > Len(s) THEN ""
    ELSE IF CharAt(s, i) = "_" THEN camel_case_from(s, i + 1, TRUE)
    ELSE (IF capitalize THEN to_ascii_uppercase_char(CharAt(s, i)) ELSE CharAt(s, i))
         \o camel_case_from(s, i + 1, FALSE)

serde_rename_field(field) == camel_case_from(field, 1, FALSE)

\* The JSON member a field is read from, null when its key is missing.
field_value(obj, field) ==
    LET key == serde_rename_field(field)
    IN  IF key \in DOMAIN obj THEN obj[key] ELSE JNull

\* An Option<T> field of a derived Deserialize: a missing key takes the
\* field's default (None unless the field names a default function), an
\* explicit null is None, any other value is decoded as T.
\* `decoded` is the member of the field decoded as T.
deserialize_option_field(obj, field, decoded, missing) ==
    LET key == serde_rename_field(field)
    IN  IF key \notin DOMAIN obj THEN Ok(missing)
        ELSE IF obj[key].t = "null" THEN Ok(None)
        ELSE IF IsOk(decoded) THEN Ok(Some(decoded.value)) ELSE decoded

\* FillHistorySearchParams::default_limit / default_offset
FillHistorySearchParams_default_limit == Some(100)

FillHistorySearchParams_default_offset == Some(0)

\* A limit that has no default: an absent key leaves it unset.
default_limit_unset == None

\* OrderHistorySearchParams::default_limit / default_offset
OrderHistorySearchParams_default_limit == Some(100)

OrderHistorySearchParams_default_offset == Some(0)

\* StrategyHistorySearchParams::default_limit / default_offset
StrategyHistorySearchParams_default_limit == Some(100)

StrategyHistorySearchParams_default_offset == Some(0)

\* The decoded fields of a struct: an error of any field fails the struct.
StructResult(fields, decoded) ==
    IF \E i \in 1..Len(fields) : ~IsOk(decoded[fields[i]])
    THEN LET i == CHOOSE k \in 1..Len(fields) : ~IsOk(decoded[fields[k]])
         IN  Err("DecodeError", fields[i])
    ELSE Ok([f \in RangeOf(fields) |-> decoded[f].value])

\* Deserialize for FillHistorySearchParams
FillHistorySearchParams_deserialize(j) ==
    IF j.t # "obj" THEN Err("DecodeError", "invalid type")
    ELSE StructResult(FillHistoryFields,
        [order_id |-> deserialize_option_field(j.v, "order_id",
                 deserialize_string(field_value(j.v, "order_id")), None),
         strategy_id |-> deserialize_option_field(j.v, "strategy_id",
                 deserialize_string(field_value(j.v, "strategy_id")), None),
         from |-> deserialize_option_field(j.v, "from",
                 deserialize_i64(field_value(j.v, "from")), None),
         to |-> deserialize_option_field(j.v, "to",
                 deserialize_i64(field_value(j.v, "to")), None),
         symbol |-> deserialize_option_field(j.v, "symbol",
                 deserialize_string(field_value(j.v, "symbol")), None),
         limit |-> deserialize_option_field(j.v, "limit",
                 deserialize_u64(field_value(j.v, "limit")), FillHistorySearchParams_default_limit),
         offset |-> deserialize_option_field(j.v, "offset",
                 deserialize_u64(field_value(j.v, "offset")), FillHistorySearchParams_default_offset),
         fill_type |-> deserialize_option_field(j.v, "fill_type",
                 deserialize_enum(FillType, field_value(j.v, "fill_type")), None),
         market_type |-> deserialize_option_field(j.v, "market_type",
                 deserialize_enum(MarketType, field_value(j.v, "market_type")), None),
         sort_direction |-> deserialize_option_field(j.v, "sort_direction",
                 deserialize_enum(SortDirection, field_value(j.v, "sort_direction")), None)])

\* Deserialize for OrderHistorySearchParams
OrderHistorySearchParams_deserialize(j) ==
    IF j.t # "obj" THEN Err("DecodeError", "invalid type")
    ELSE StructResult(OrderHistoryFields,
        [order_id |-> deserialize_option_field(j.v, "order_id",
                 deserialize_string(field_value(j.v, "order_id")), None),
         strategy_id |-> deserialize_option_field(j.v, "strategy_id",
                 deserialize_string(field_value(j.v, "strategy_id")), None),
         symbol |-> deserialize_option_field(j.v, "symbol",
                 deserialize_string(field_value(j.v, "symbol")), None),
         limit |-> deserialize_option_field(j.v, "limit",
                 deserialize_u64(field_value(j.v, "limit")), OrderHistorySearchParams_default_limit),
         offset |-> deserialize_option_field(j.v, "offset",
                 deserialize_u64(field_value(j.v, "offset")), OrderHistorySearchParams_default_offset),
         market_type |-> deserialize_option_field(j.v, "market_type",
                 deserialize_enum(MarketType, field_value(j.v, "market_type")), None),
         sort_direction |-> deserialize_option_field(j.v, "sort_direction",
                 deserialize_enum(SortDirection, field_value(j.v, "sort_direction")), None)])

\* Deserialize for StrategyHistorySearchParams
StrategyHistorySearchParams_deserialize(j) ==
    IF j.t # "obj" THEN Err("DecodeError", "invalid type")
    ELSE StructResult(StrategyHistoryFields,
        [strategy_id |-> deserialize_option_field(j.v, "strategy_id",
                 deserialize_string(field_value(j.v, "strategy_id")), None),
         symbol |-> deserialize_option_field(j.v, "symbol",
                 deserialize_string(field_value(j.v, "symbol")), None),
         limit |-> deserialize_option_field(j.v, "limit",
                 deserialize_u64(field_value(j.v, "limit")), StrategyHistorySearchParams_default_limit),
         offset |-> deserialize_option_field(j.v, "offset",
                 deserialize_u64(field_value(j.v, "offset")), StrategyHistorySearchParams_default_offset),
         market_type |-> deserialize_option_field(j.v, "market_type",
                 deserialize_enum(MarketType, field_value(j.v, "market_type")), None),
         sort_direction |-> deserialize_option_field(j.v, "sort_direction",
                 deserialize_enum(SortDirection, field_value(j.v, "sort_direction")), None)])

\* The search-parameter structures by name.
SearchParamsFields(struct) ==
    CASE struct = "FillHistorySearchParams" -> FillHistoryFields
      [] struct = "OrderHistorySearchParams" -> OrderHistoryFields
      [] struct = "StrategyHistorySearchParams" -> StrategyHistoryFields

SearchParams_deserialize(struct, j) ==
    CASE struct = "FillHistorySearchParams" -> FillHistorySearchParams_deserialize(j)
      [] struct = "OrderHistorySearchParams" -> OrderHistorySearchParams_deserialize(j)
      [] struct = "StrategyHistorySearchParams" -> StrategyHistorySearchParams_deserialize(j)

\* #[derive(Default)]: every field of a search-parameter structure is None.
SearchParams_default(struct) == [f \in RangeOf(SearchParamsFields(struct)) |-> None]

\* serde_json of the value of a set field: a string, a number token or the
\* renamed name of a variant.
serialize_field(field, v) ==
    CASE field \in {"order_id", "strategy_id", "symbol"} -> JStr(v)
      [] field \in {"from", "to"} -> JNum(fmt_i64(v))
      [] field \in {"limit", "offset"} -> JNum(fmt_u64(v))
      [] field = "fill_type" -> JStr(serde_serialize(FillType, v))
      [] field = "market_type" -> JStr(serde_serialize(MarketType, v))
      [] field = "sort_direction" -> JStr(serde_serialize(SortDirection, v))

\* A Serialize without skip_serializing_if: an unset field is written as null.
SearchParams_serialize_with_nulls(struct, p) ==
    LET fields == RangeOf(SearchParamsFields(struct))
        fieldOf(key) == CHOOSE f \in fields : serde_rename_field(f) = key
    IN  JObj([key \in {serde_rename_field(f) : f \in fields} |->
                 IF IsSome(p[fieldOf(key)])
                 THEN serialize_field(fieldOf(key), p[fieldOf(key)][1]) ELSE JNull])

\* Serialize of the search-parameter structures: every field carries
\* skip_serializing_if = "Option::is_none", so the object holds the set
\* fields only, under their camelCase names.
SearchParams_serialize(struct, p) ==
    LET set == {f \in RangeOf(SearchParamsFields(struct)) : IsSome(p[f])}
        fieldOf(key) == CHOOSE f \in set : serde_rename_field(f) = key
    IN  JObj([key \in {serde_rename_field(f) : f \in set} |->
                 serialize_field(fieldOf(key), p[fieldOf(key)][1])])

SearchParamsStructs ==
    {"FillHistorySearchParams", "OrderHistorySearchParams", "StrategyHistorySearchParams"}

\* The JSON members the model writes for a search-parameter field: a valid
\* value, and for some fields an explicit null or a value of the wrong type.
SampleMembers(field) ==
    CASE field \in {"order_id", "strategy_id"} -> {JStr("7")}
      [] field = "symbol" -> {JStr("SOL_USDC"), JNum("1")}
      [] field \in {"from", "to"} -> {JNum("-5")}
      [] field = "limit" -> {JNum("50"), JNull}
      [] field = "offset" -> {JNum("7"), JNull}
      [] field = "fill_type" -> {JStr("Adl")}
      [] field = "market_type" -> {JStr("PERP"), JStr("Perp")}
      [] field = "sort_direction" -> {JStr("Desc")}

\* Every JSON object over the renamed names of `fields`, a key absent or
\* carrying one of its sample members.
RECURSIVE JsonObjectsOver(_)
JsonObjectsOver(fields) ==
    IF Len(fields) = 0 THEN {EmptyObject}
    ELSE LET rest == JsonObjectsOver(Tail(fields))
             key == serde_rename_field(Head(fields))
         IN  rest \cup {(key :> m) @@ o : o \in rest, m \in SampleMembers(Head(fields))}

-----------------------------------------------------------------------------
(* The record of the last application of a pure function, and idleness *)

NoEval == [fn |-> "", enum |-> "", input |-> None, output |-> None, origin |-> None]

Evaluated(fn, enum, input, output) ==
    [fn |-> fn, enum |-> enum, input |-> Some(input), output |-> Some(output),
     origin |-> None]

\* An application to a value that was itself decoded from the text `origin`.
EvaluatedFrom(fn, origin, input, output) ==
    [fn |-> fn, enum |-> "", input |-> Some(input), output |-> Some(output),
     origin |-> Some(origin)]

\* A function is applied when nothing else is in progress.
AllIdle == eval = NoEval /\ \A c \in callers : calls[c].pc = "idle"

\* A caller enters an operation when it has no call of its own in flight;
\* the calls of the other callers do not matter.
CanStart(c) == eval = NoEval /\ calls[c].pc = "idle"

\* Several callers share the client.
Concurrent == Cardinality(callers) > 1

\* The inputs of a step: the whole set with one caller, a part of it when
\* several callers run side by side.
Drawn(all, few) == IF Concurrent THEN few ELSE all

\* Search parameters with at most symbol and limit set.
FewOf(params) ==
    {p \in params :
        /\ p.symbol \in OptionOf({"SOL_USDC"})
        /\ p.limit \in OptionOf({50})
        /\ \A f \in DOMAIN p \ {"symbol", "limit"} : p[f] = None}

FewFillHistorySearchParams == FewOf(FillHistorySearchParamsSet)

FewOrderHistorySearchParams == FewOf(OrderHistorySearchParamsSet)

FewStrategyHistorySearchParams == FewOf(StrategyHistorySearchParamsSet)

-----------------------------------------------------------------------------
(* The transport collaborator and the request dispatcher *)

\* What the transport hands back: a transport-level failure, or an HTTP
\* response with its status code and body.
TransportFailure == [kind |-> "TransportFailure", status |-> 0, body |-> NotJson("")]

HttpResponse(status, body) == [kind |-> "Http", status |-> status, body |-> body]

Statuses == {200, 204, 301, 400, 429, 500}

ErrorBody ==
    JObj(("code" :> JStr("INVALID_CLIENT_REQUEST")) @@ ("message" :> JStr("Invalid symbol")))

DepthBody ==
    JObj(("asks" :> JArr(<<JArr(<<JStr("21.9"), JStr("500.123")>>),
                           JArr(<<JStr("22.10"), JStr("0.50")>>)>>))
         @@ ("bids" :> JArr(<<JArr(<<JStr("21.80"), JStr("1")>>)>>))
         @@ ("lastUpdateId" :> JStr("1684026955123")))

\* A depth whose best ask carries more fractional digits than a Decimal holds.
DeepDepthBody ==
    JObj(("asks" :> JArr(<<JArr(<<JStr("0.00000000000000000000000000015"), JStr("2")>>)>>))
         @@ ("bids" :> JArr(<<>>))
         @@ ("lastUpdateId" :> JStr("1684026955124")))

\* A market as the server describes it, with the given price and quantity steps.
MarketBody(tick_size, step_size) ==
    JObj(("symbol" :> JStr("SOL_USDC"))
         @@ ("baseSymbol" :> JStr("SOL"))
         @@ ("quoteSymbol" :> JStr("USDC"))
         @@ ("marketType" :> JStr("SPOT"))
         @@ ("filters" :>
               JObj(("price" :> JObj(("minPrice" :> JStr("0.01"))
                                     @@ ("tickSize" :> JStr(tick_size))))
                    @@ ("quantity" :> JObj(("minQuantity" :> JStr("0.01"))
                                           @@ ("stepSize" :> JStr(step_size))))))
         @@ ("orderBookState" :> JStr("Open"))
         @@ ("createdAt" :> JStr("2025-01-21T06:34:54.691858")))

\* The bodies the transport returns in the model.
Bodies ==
    <<JArr(<<>>), JArr(<<JObj(EmptyObject)>>), ErrorBody, DepthBody, DeepDepthBody,
      MarketBody("0.01", "0.1"), MarketBody("0", "0.1"), MarketBody("0.01", "-0.1"),
      JArr(<<MarketBody("0.01", "0.1"), MarketBody("0.00", "0")>>), NotJson("<html>")>>

\* StatusCode::is_success
is_success(status) == 200 <= status /\ status < 300

\* BpxClient::get / patch / post: one request handed to the transport; a
\* transport failure and a non-2xx response come back as errors, the latter
\* with its status code and raw body.
BpxClient_send(outcome) ==
    IF outcome.kind = "TransportFailure" THEN Err("TransportFailure", "")
    ELSE IF ~is_success(outcome.status)
    THEN [kind |-> "ApiError", status_code |-> outcome.status, message |-> outcome.body]
    ELSE Ok(outcome)

\* The account result structures: their fields are declared outside the
\* files modelled here; the model asks for a JSON object.
AccountRequiredFields(struct) == {}

\* The non-optional fields of the response structures.
RequiredFields(struct) ==
    CASE struct = "HistoricFill" ->
           {"fee", "fee_symbol", "is_maker", "order_id", "price", "quantity", "side",
            "symbol", "timestamp"}
      [] struct = "HistoricOrder" ->
           {"id", "created_at", "order_type", "self_trade_prevention", "status", "side",
            "symbol"}
      [] struct = "Strategy" ->
           {"id", "created_at", "strategy_type", "self_trade_prevention", "status", "side",
            "symbol", "time_in_force", "duration", "interval",
            "randomized_interval_quantity"}
      [] struct = "Market" ->
           {"symbol", "base_symbol", "quote_symbol", "market_type", "filters",
            "order_book_state", "created_at"}
      [] struct = "Ticker" ->
           {"symbol", "first_price", "last_price", "price_change", "price_change_percent",
            "high", "low", "volume", "trades"}
      [] struct = "OrderBookDepth" -> {"asks", "bids", "last_update_id"}
      [] struct = "Kline" -> {"start", "volume", "trades"}
      [] struct = "FundingRate" -> {"symbol", "interval_end_timestamp", "funding_rate"}
      [] struct = "MarkPrice" ->
           {"symbol", "funding_rate", "index_price", "mark_price", "next_funding_timestamp"}
      [] struct = "Asset" -> {"symbol", "tokens"}
      [] struct = "FuturePosition" ->
           {"break_even_price", "cumulative_funding_payment", "entry_price",
            "est_liquidation_price", "imf", "imf_function", "mark_price", "mmf",
            "mmf_function", "net_cost", "net_exposure_notional", "net_exposure_quantity",
            "net_quantity", "pnl_realized", "pnl_unrealized", "position_id", "symbol",
            "user_id"}
      [] struct = "BorrowLendPosition" ->
           {"cumulative_interest", "id", "symbol", "imf", "imf_function", "mark_price",
            "mmf", "mmf_function", "net_exposure_notional", "net_exposure_quantity",
            "net_quantity"}
      [] struct = "BorrowLendMarket" ->
           {"state", "asset_mark_price", "borrow_interest_rate", "borrowed_quantity", "fee",
            "lend_interest_rate", "lent_quantity", "max_utilization",
            "open_borrow_lend_limit", "optimal_utilization", "symbol", "timestamp",
            "throttle_utilization_threshold", "throttle_utilization_bound",
            "throttle_update_fraction", "utilization", "step_size"}
      [] OTHER -> AccountRequiredFields(struct)

\* The declared result type of each operation that decodes its response.
Single(struct) == [list |-> FALSE, struct |-> struct]

ListOf(struct) == [list |-> TRUE, struct |-> struct]

ResultType(op) ==
    CASE op = "get_fill_history" -> ListOf("HistoricFill")
      [] op = "get_order_history" -> ListOf("HistoricOrder")
      [] op = "get_strategy_history" -> ListOf("Strategy")
      [] op = "get_account" -> Single("AccountSettings")
      [] op = "get_account_max_borrow" -> Single("AccountMaxBorrow")
      [] op = "get_account_max_order_quantity" -> Single("AccountMaxOrder")
      [] op = "get_account_max_withdrawal" -> Single("AccountMaxWithdrawal")
      [] op = "get_assets" -> ListOf("Asset")
      [] op = "get_market" -> Single("Market")
      [] op = "get_markets" -> ListOf("Market")
      [] op = "get_all_mark_prices" -> ListOf("MarkPrice")
      [] op = "get_ticker" -> Single("Ticker")
      [] op = "get_tickers" -> ListOf("Ticker")
      [] op = "get_order_book_depth" -> Single("OrderBookDepth")
      [] op = "get_funding_interval_rates" -> ListOf("FundingRate")
      [] op = "get_k_lines" -> ListOf("Kline")
      [] op = "get_open_future_positions" -> ListOf("FuturePosition")
      [] op = "get_borrow_lend_positions" -> ListOf("BorrowLendPosition")
      [] op = "get_borrow_lend_markets" -> ListOf("BorrowLendMarket")

\* The operations that return () once the transport call succeeded.
UnitOps == {"update_account", "convert_dust_balance"}

\* Whether a JSON value is an object carrying every non-optional field of a
\* structure under its camelCase name.
has_required_fields(struct, j) ==
    j.t = "obj" /\ {serde_rename_field(f) : f \in RequiredFields(struct)} \subseteq DOMAIN j.v

\* serde Deserialize for Decimal: a JSON string goes through from_str, an
\* integer number becomes a Decimal of scale 0.
deserialize_Decimal(j) ==
    IF j.t = "str"
    THEN LET d == Decimal_deserialize(j.v)
         IN  IF IsOk(d) THEN d ELSE Err("DecodeError", d.kind)
    ELSE IF IsOk(deserialize_i64(j))
    THEN Ok([neg |-> Head(j.v) = "-",
             digits |-> StripLeadingZeros(IF Head(j.v) = "-" THEN Tail(j.v) ELSE j.v),
             scale |-> 0])
    ELSE Err("DecodeError", "invalid type")

\* Levels decoded back to front.
deserialize_levels_reversed(j) ==
    IF j.t = "arr"
       /\ \A i \in 1..Len(j.v) :
              /\ j.v[i].t = "arr" /\ Len(j.v[i].v) = 2
              /\ IsOk(deserialize_Decimal(j.v[i].v[1]))
              /\ IsOk(deserialize_Decimal(j.v[i].v[2]))
    THEN Ok([i \in 1..Len(j.v) |->
                <<deserialize_Decimal(j.v[Len(j.v) + 1 - i].v[1]).value,
                  deserialize_Decimal(j.v[Len(j.v) + 1 - i].v[2]).value>>])
    ELSE Err("DecodeError", "levels")

\* serde Deserialize for Vec<(Decimal, Decimal)>: every element an array of
\* exactly two decimals, the elements in their order.
deserialize_levels(j) ==
    IF j.t = "arr"
       /\ \A i \in 1..Len(j.v) :
              /\ j.v[i].t = "arr" /\ Len(j.v[i].v) = 2
              /\ IsOk(deserialize_Decimal(j.v[i].v[1]))
              /\ IsOk(deserialize_Decimal(j.v[i].v[2]))
    THEN Ok([i \in 1..Len(j.v) |->
                <<deserialize_Decimal(j.v[i].v[1]).value,
                  deserialize_Decimal(j.v[i].v[2]).value>>])
    ELSE Err("DecodeError", "levels")

\* Deserialize for OrderBookDepth
OrderBookDepth_deserialize(j) ==
    IF ~has_required_fields("OrderBookDepth", j) THEN Err("DecodeError", "OrderBookDepth")
    ELSE LET asks == deserialize_levels(field_value(j.v, "asks"))
             bids == deserialize_levels(field_value(j.v, "bids"))
             last_update_id == deserialize_string(field_value(j.v, "last_update_id"))
         IN  IF IsOk(asks) /\ IsOk(bids) /\ IsOk(last_update_id)
             THEN Ok([asks |-> asks.value, bids |-> bids.value,
                      last_update_id |-> last_update_id.value])
             ELSE Err("DecodeError", "OrderBookDepth")

\* Deserialize for Market with its MarketFilters, PriceFilters and
\* QuantityFilters, reduced to the non-optional fields: the decoded value is
\* whatever the body holds; no field is compared with anything.
Market_deserialize(j) ==
    IF ~has_required_fields("Market", j) THEN Err("DecodeError", "Market")
    ELSE LET filters == field_value(j.v, "filters")
             price == IF filters.t = "obj" THEN field_value(filters.v, "price") ELSE JNull
             quantity == IF filters.t = "obj" THEN field_value(filters.v, "quantity") ELSE JNull
             decimal(obj, field) ==
                 IF obj.t = "obj" THEN deserialize_Decimal(field_value(obj.v, field))
                 ELSE Err("DecodeError", field)
             symbol == deserialize_string(field_value(j.v, "symbol"))
             market_type == deserialize_enum(MarketType, field_value(j.v, "market_type"))
             min_price == decimal(price, "min_price")
             tick_size == decimal(price, "tick_size")
             min_quantity == decimal(quantity, "min_quantity")
             step_size == decimal(quantity, "step_size")
         IN  IF IsOk(symbol) /\ IsOk(market_type) /\ IsOk(min_price) /\ IsOk(tick_size)
                /\ IsOk(min_quantity) /\ IsOk(step_size)
             THEN Ok(MakeMarket(symbol.value, min_price.value, tick_size.value,
                                min_quantity.value, step_size.value))
             ELSE Err("DecodeError", "Market")

\* serde_json into a response structure.  The order book and the market are
\* decoded field by field; of the other structures the model keeps the JSON
\* object, which must carry every non-optional field.
deserialize_struct(struct, j) ==
    IF struct = "OrderBookDepth" THEN OrderBookDepth_deserialize(j)
    ELSE IF struct = "Market" THEN Market_deserialize(j)
    ELSE IF has_required_fields(struct, j) THEN Ok([type |-> struct, fields |-> j.v])
    ELSE Err("DecodeError", struct)

\* Response::json::<T>()
Response_json(type, body) ==
    IF ~type.list THEN deserialize_struct(type.struct, body)
    ELSE IF body.t = "arr"
            /\ \A i \in 1..Len(body.v) : IsOk(deserialize_struct(type.struct, body.v[i]))
    THEN Ok([i \in 1..Len(body.v) |-> deserialize_struct(type.struct, body.v[i]).value])
    ELSE Err("DecodeError", type.struct)

\* A tail that falls back to an empty value when the body does not decode.
finish_json_defaulting(op, outcome) ==
    LET res == BpxClient_send(outcome)
    IN  IF ~IsOk(res) THEN res
        ELSE IF IsOk(Response_json(ResultType(op), res.value.body))
        THEN Response_json(ResultType(op), res.value.body)
        ELSE Ok(<<>>)

\* The tail of every decoding operation:
\*   let res = self.get(url).await?;  res.json().await.map_err(Into::into)
finish_json(op, outcome) ==
    LET res == BpxClient_send(outcome)
    IN  IF ~IsOk(res) THEN res ELSE Response_json(ResultType(op), res.value.body)

\* A tail of the unit operations that decodes the response body all the same.
finish_unit_decoding(op, outcome) ==
    LET res == BpxClient_send(outcome)
    IN  IF ~IsOk(res) THEN res
        ELSE IF IsOk(Response_json(Single("AccountSettings"), res.value.body))
        THEN Ok("()")
        ELSE Response_json(Single("AccountSettings"), res.value.body)

\* A tail that drops what the transport call returned: the `?` is missing.
finish_unit_unchecked(op, outcome) == Ok("()")

\* The tail of update_account and convert_dust_balance:
\*   self.patch(url, payload).await?;  Ok(())
finish_unit(op, outcome) ==
    LET res == BpxClient_send(outcome)
    IN  IF ~IsOk(res) THEN res ELSE Ok("()")

finish(op, outcome) ==
    IF op \in UnitOps THEN finish_unit(op, outcome) ELSE finish_json(op, outcome)

\* The steps an operation runs once the transport has answered: the `?`
\* returns a failure at once, and only the operations whose last line is
\* res.json() go on to decode the body.
steps_after(op, outcome) ==
    IF IsOk(BpxClient_send(outcome)) /\ op \notin UnitOps THEN <<"decode">> ELSE <<>>

\* The state of one caller's call; steps lists what the operation has done.
IdleCall ==
    [pc |-> "idle", op |-> "", args |-> None, request |-> None, sent |-> 0,
     response |-> None, result |-> None, steps |-> <<>>]

Request(method, url, body) == [method |-> method, url |-> url, body |-> body]

\* A client that keeps the URL of its last request as its base URL.
StartCall_rebasing(c, op, args, request) ==
    /\ calls' = [calls EXCEPT ![c] =
                    [pc |-> "awaiting", op |-> op, args |-> Some(args),
                     request |-> Some(request), sent |-> calls[c].sent + 1,
                     response |-> None, result |-> None,
                     steps |-> <<"build_url", "transport_call">>]]
    /\ base_url' = request.url
    /\ UNCHANGED <<callers, eval>>

\* An operation up to its suspension point: the URL is built and the request
\* handed to the transport.
StartCall(c, op, args, request) ==
    /\ calls' = [calls EXCEPT ![c] =
                    [pc |-> "awaiting", op |-> op, args |-> Some(args),
                     request |-> Some(request), sent |-> calls[c].sent + 1,
                     response |-> None, result |-> None,
                     steps |-> <<"build_url", "transport_call">>]]
    /\ UNCHANGED <<base_url, callers, eval>>

get_fill_history(c) ==
    /\ CanStart(c)
    /\ \E p \in Drawn(FillHistorySearchParamsSet, FewFillHistorySearchParams) :
           StartCall(c, "get_fill_history", p,
                     Request("GET", get_fill_history_url(base_url, p), None))

get_order_history(c) ==
    /\ CanStart(c)
    /\ \E p \in Drawn(OrderHistorySearchParamsSet, FewOrderHistorySearchParams) :
           StartCall(c, "get_order_history", p,
                     Request("GET", get_order_history_url(base_url, p), None))

get_strategy_history(c) ==
    /\ CanStart(c)
    /\ \E p \in Drawn(StrategyHistorySearchParamsSet, FewStrategyHistorySearchParams) :
           StartCall(c, "get_strategy_history", p,
                     Request("GET", get_strategy_history_url(base_url, p), None))

\* The arguments the model passes to the other operations.
SymbolArgs == {"BTC_USDC", "SOL_USDC", "A?b"}

NoArgs == <<>>

PriceArgs == {[neg |-> FALSE, digits |-> "150", scale |-> 2]}

MaxOrderQuantityArgs ==
    [symbol : {"SOL_USDC"}, side : SideValues, price : OptionOf(PriceArgs),
     reduce_only : OptionOf(BOOLEAN), auto_borrow : OptionOf({TRUE}),
     auto_borrow_repay : OptionOf({FALSE}), auto_lend_redeem : OptionOf(BOOLEAN)]

MaxWithdrawalArgs ==
    [symbol : SymbolArgs, auto_borrow : OptionOf(BOOLEAN),
     auto_lend_redeem : OptionOf(BOOLEAN)]

KLinesArgs ==
    [symbol : {"SOL_USDC"}, interval : KlineIntervalValues, start_time : TimeValues,
     end_time : OptionOf(TimeValues), price_type : OptionOf(KlinePriceTypeValues)]

\* The request payloads of update_account and convert_dust_balance.
UpdateAccountPayloads == {"{\"autoLend\":true}"}

ConvertDustPayloads == {"{\"symbol\":\"SOL\"}"}

get_account(c) ==
    /\ CanStart(c)
    /\ StartCall(c, "get_account", NoArgs, Request("GET", base_url \o API_ACCOUNT, None))

get_account_max_borrow(c) ==
    /\ CanStart(c)
    /\ \E symbol \in SymbolArgs :
           StartCall(c, "get_account_max_borrow", symbol,
                     Request("GET", get_account_max_borrow_url(base_url, symbol), None))

get_account_max_order_quantity(c) ==
    /\ CanStart(c)
    /\ \E a \in MaxOrderQuantityArgs :
           StartCall(c, "get_account_max_order_quantity", a,
                     Request("GET", get_account_max_order_quantity_url(base_url, a), None))

get_account_max_withdrawal(c) ==
    /\ CanStart(c)
    /\ \E a \in MaxWithdrawalArgs :
           StartCall(c, "get_account_max_withdrawal", a,
                     Request("GET", get_account_max_withdrawal_url(base_url, a), None))

update_account(c) ==
    /\ CanStart(c)
    /\ \E payload \in UpdateAccountPayloads :
           StartCall(c, "update_account", payload,
                     Request("PATCH", base_url \o API_ACCOUNT, Some(payload)))

convert_dust_balance(c) ==
    /\ CanStart(c)
    /\ \E payload \in ConvertDustPayloads :
           StartCall(c, "convert_dust_balance", payload,
                     Request("POST", base_url \o API_ACCOUNT_CONVERT_DUST, Some(payload)))

get_assets(c) ==
    /\ CanStart(c)
    /\ StartCall(c, "get_assets", NoArgs, Request("GET", base_url \o API_ASSETS, None))

get_market(c) ==
    /\ CanStart(c)
    /\ \E symbol \in SymbolArgs :
           StartCall(c, "get_market", symbol,
                     Request("GET", get_market_url(base_url, symbol), None))

get_markets(c) ==
    /\ CanStart(c)
    /\ StartCall(c, "get_markets", NoArgs, Request("GET", base_url \o API_MARKETS, None))

get_all_mark_prices(c) ==
    /\ CanStart(c)
    /\ StartCall(c, "get_all_mark_prices", NoArgs,
                 Request("GET", base_url \o API_MARK_PRICES, None))

get_ticker(c) ==
    /\ CanStart(c)
    /\ \E symbol \in SymbolArgs :
           StartCall(c, "get_ticker", symbol,
                     Request("GET", get_ticker_url(base_url, symbol), None))

get_tickers(c) ==
    /\ CanStart(c)
    /\ StartCall(c, "get_tickers", NoArgs, Request("GET", base_url \o API_TICKERS, None))

get_order_book_depth(c) ==
    /\ CanStart(c)
    /\ \E symbol \in SymbolArgs :
           StartCall(c, "get_order_book_depth", symbol,
                     Request("GET", get_order_book_depth_url(base_url, symbol), None))

get_funding_interval_rates(c) ==
    /\ CanStart(c)
    /\ \E symbol \in SymbolArgs :
           StartCall(c, "get_funding_interval_rates", symbol,
                     Request("GET", get_funding_interval_rates_url(base_url, symbol), None))

get_k_lines(c) ==
    /\ CanStart(c)
    /\ \E a \in KLinesArgs :
           StartCall(c, "get_k_lines", a,
                     Request("GET", get_k_lines_url(base_url, a), None))

get_open_future_positions(c) ==
    /\ CanStart(c)
    /\ \E symbol \in OptionOf(SymbolArgs) :
           StartCall(c, "get_open_future_positions", symbol,
                     Request("GET", get_open_future_positions_url(base_url, symbol), None))

get_borrow_lend_positions(c) ==
    /\ CanStart(c)
    /\ StartCall(c, "get_borrow_lend_positions", NoArgs,
                 Request("GET", base_url \o API_BORROW_LEND_POSITIONS, None))

get_borrow_lend_markets(c) ==
    /\ CanStart(c)
    /\ StartCall(c, "get_borrow_lend_markets", NoArgs,
                 Request("GET", base_url \o API_BORROW_LEND_MARKETS, None))

\* An operation that hands the request to the transport again after a
\* transport failure.
Completed_retrying(c, outcome) ==
    IF outcome.kind = "TransportFailure" /\ calls[c].sent < 2
    THEN calls' = [calls EXCEPT ![c].sent = @ + 1]
    ELSE calls' = [calls EXCEPT ![c] =
                      [pc |-> "done", op |-> calls[c].op, args |-> None, request |-> None,
                       sent |-> calls[c].sent, response |-> Some(outcome),
                       result |-> Some(finish(calls[c].op, outcome)),
                       steps |-> calls[c].steps \o steps_after(calls[c].op, outcome)]]

\* A transport whose answer is put where every waiting call reads it.
Completed_broadcast(c, outcome) ==
    calls' = [d \in callers |->
                 IF calls[d].pc = "awaiting"
                 THEN [pc |-> "done", op |-> calls[d].op, args |-> None, request |-> None,
                       sent |-> calls[d].sent, response |-> Some(outcome),
                       result |-> Some(finish(calls[d].op, outcome)),
                       steps |-> calls[d].steps \o steps_after(calls[d].op, outcome)]
                 ELSE calls[d]]

\* The transport answers and the operation runs to its end: the arguments
\* and the request have been consumed, the result is what the caller gets.
Completed(c, outcome) ==
    calls' = [calls EXCEPT ![c] =
                 [pc |-> "done", op |-> calls[c].op, args |-> None, request |-> None,
                  sent |-> calls[c].sent, response |-> Some(outcome),
                  result |-> Some(finish(calls[c].op, outcome)),
                  steps |-> calls[c].steps \o steps_after(calls[c].op, outcome)]]

Complete(c) ==
    /\ calls[c].pc = "awaiting"
    /\ \/ Completed(c, TransportFailure)
       \/ \E st \in Drawn(Statuses, {200, 400}) : \E i \in Drawn(1..Len(Bodies), 3..4) :
              Completed(c, HttpResponse(st, Bodies[i]))
    /\ UNCHANGED <<base_url, callers, eval>>

\* The caller takes the result.
Return(c) ==
    /\ calls[c].pc = "done"
    /\ calls' = [calls EXCEPT ![c] = IdleCall]
    /\ UNCHANGED <<base_url, callers, eval>>

-----------------------------------------------------------------------------
(* The WebSocket payloads: fields, their one-letter keys and their decoding *)

\* A field of a payload structure: its name, the key of #[serde(rename)],
\* its type and its doc comment.
Field(field, key, type, doc) == [field |-> field, key |-> key, type |-> type, doc |-> doc]

PositionUpdate_fields ==
    <<Field("event_type", "e", "Option<PositionUpdateType>", "Event type"),
      Field("event_time", "E", "i64", "Event timestamp in microseconds"),
      Field("symbol", "s", "String", "Symbol"),
      Field("break_even_price", "b", "Decimal", "Break event price"),
      Field("entry_price", "B", "Decimal", "Entry price"),
      Field("imf", "f", "Decimal", "Initial margin fraction"),
      Field("mark_price", "M", "Decimal", "Mark price"),
      Field("mmf", "m", "Decimal", "Maintenance margin fraction"),
      Field("net_quantity", "q", "Decimal", "Net quantity"),
      Field("net_exposure_quantity", "Q", "Decimal", "Net exposure quantity"),
      Field("net_exposure_notional", "n", "Decimal", "Net exposure notional"),
      Field("position_id", "i", "u64", "Position ID"),
      Field("pnl_realized", "p", "Decimal", "PnL realized"),
      Field("pnl_unrealized", "P", "Decimal", "PnL realized"),
      Field("timestamp", "T", "u64", "Engine timestamp in microseconds"),
      Field("est_liquidation_price", "l", "Option<Decimal>", "Estimated liquidation price")>>

OpenInterestUpdate_fields ==
    <<Field("event_type", "e", "String", "Event type"),
      Field("event_time", "E", "i64", "Event timestamp in microseconds"),
      Field("symbol", "s", "String", "Symbol"),
      Field("open_interest", "o", "Decimal", "Open interest in contracts")>>

\* TickerUpdate with the keys of the two timestamps exchanged.
TickerUpdate_fields_exchanged ==
    <<Field("event_type", "e", "String", "Event type"),
      Field("event_time", "T", "i64", "Event timestamp in microseconds"),
      Field("symbol", "s", "String", "Symbol"),
      Field("ask_price", "a", "Decimal", ""),
      Field("ask_quantity", "A", "Decimal", ""),
      Field("bid_price", "b", "Decimal", ""),
      Field("bid_quantity", "B", "Decimal", ""),
      Field("update_id", "u", "u64", "Update ID of event"),
      Field("timestamp", "E", "u64", "Engine timestamp in microseconds")>>

TickerUpdate_fields ==
    <<Field("event_type", "e", "String", "Event type"),
      Field("event_time", "E", "i64", "Event timestamp in microseconds"),
      Field("symbol", "s", "String", "Symbol"),
      Field("ask_price", "a", "Decimal", ""),
      Field("ask_quantity", "A", "Decimal", ""),
      Field("bid_price", "b", "Decimal", ""),
      Field("bid_quantity", "B", "Decimal", ""),
      Field("update_id", "u", "u64", "Update ID of event"),
      Field("timestamp", "T", "u64", "Engine timestamp in microseconds")>>

TickerStatisticsUpdate_fields ==
    <<Field("event_type", "e", "String", "Event type"),
      Field("event_time", "E", "i64", "Event timestamp in microseconds"),
      Field("symbol", "s", "String", "Symbol"),
      Field("first_price", "o", "Decimal", "First price"),
      Field("last_price", "c", "Decimal", "Last price"),
      Field("high_price", "h", "Decimal", "High price"),
      Field("low_price", "l", "Decimal", "Low price"),
      Field("base_asset_volume", "v", "Decimal", "Base asset volume"),
      Field("quote_asset_volume", "V", "Decimal", "Quote asset volume"),
      Field("number_of_trades", "n", "u64", "Number of trades")>>

OrderBookDepthUpdate_fields ==
    <<Field("event_type", "e", "String", "Event type"),
      Field("event_time", "E", "i64", "Event timestamp in microseconds"),
      Field("symbol", "s", "String", "Symbol"),
      Field("timestamp", "T", "i64", "Engine timestamp in microseconds"),
      Field("first_update_id", "U", "u64", "First update ID in event"),
      Field("last_update_id", "u", "u64", "Last update ID in event"),
      Field("asks", "a", "Vec<(Decimal, Decimal)>", "Asks"),
      Field("bids", "b", "Vec<(Decimal, Decimal)>", "Bids")>>

KlineUpdate_fields ==
    <<Field("event_type", "e", "String", "Event type"),
      Field("event_time", "E", "i64", "Event timestamp in microseconds"),
      Field("symbol", "s", "String", "Symbol"),
      Field("start", "t", "NaiveDateTime", "K-Line start time in seconds"),
      Field("end", "T", "NaiveDateTime", "K-Line close time in seconds"),
      Field("open", "o", "Decimal", "Open price"),
      Field("close", "c", "Decimal", "Open price"),
      Field("high", "h", "Decimal", "High price"),
      Field("low", "l", "Decimal", "Low price"),
      Field("base_asset_volume", "v", "Decimal", "Base asset volume"),
      Field("number_of_trades", "n", "u64", "Number of trades"),
      Field("is_closed", "X", "bool", "Is this k-line closed?")>>

\* MarkPriceUpdate reading the mark price under the key of the index price
\* and the index price under the key of the mark price.
MarkPriceUpdate_fields_exchanged ==
    <<Field("event_type", "e", "String", "Event type"),
      Field("event_time", "E", "i64", "Event timestamp in microseconds"),
      Field("symbol", "s", "String", "Symbol"),
      Field("mark_price", "i", "Decimal", "Mark Price"),
      Field("funding_rate", "f", "Decimal", "Estimated funding rate"),
      Field("index_price", "p", "Decimal", "Index Price"),
      Field("funding_timestamp", "n", "u64", "Next funding timestamp in microseconds"),
      Field("engine_timestamp", "T", "i64", "Engine timestamp in microseconds")>>

MarkPriceUpdate_fields ==
    <<Field("event_type", "e", "String", "Event type"),
      Field("event_time", "E", "i64", "Event timestamp in microseconds"),
      Field("symbol", "s", "String", "Symbol"),
      Field("mark_price", "p", "Decimal", "Mark Price"),
      Field("funding_rate", "f", "Decimal", "Estimated funding rate"),
      Field("index_price", "i", "Decimal", "Index Price"),
      Field("funding_timestamp", "n", "u64", "Next funding timestamp in microseconds"),
      Field("engine_timestamp", "T", "i64", "Engine timestamp in microseconds")>>

StreamStructs ==
    {"PositionUpdate", "OpenInterestUpdate", "TickerUpdate", "TickerStatisticsUpdate",
     "OrderBookDepthUpdate", "KlineUpdate", "MarkPriceUpdate"}

StreamFields(struct) ==
    CASE struct = "PositionUpdate" -> PositionUpdate_fields
      [] struct = "OpenInterestUpdate" -> OpenInterestUpdate_fields
      [] struct = "TickerUpdate" -> TickerUpdate_fields
      [] struct = "TickerStatisticsUpdate" -> TickerStatisticsUpdate_fields
      [] struct = "OrderBookDepthUpdate" -> OrderBookDepthUpdate_fields
      [] struct = "KlineUpdate" -> KlineUpdate_fields
      [] struct = "MarkPriceUpdate" -> MarkPriceUpdate_fields

\* A JSON true / false.
JBool(text) == [t |-> "bool", v |-> text]

\* serde_json into a value of the type of a field.  A NaiveDateTime is
\* reduced to the string it is read from.
deserialize_field(type, j) ==
    CASE type = "String" -> deserialize_string(j)
      [] type = "i64" -> deserialize_i64(j)
      [] type = "u64" -> deserialize_u64(j)
      [] type = "Decimal" -> deserialize_Decimal(j)
      [] type = "NaiveDateTime" -> deserialize_string(j)
      [] type = "bool" ->
           IF j.t = "bool" THEN Ok(j.v = "true") ELSE Err("DecodeError", "invalid type")
      [] type = "Vec<(Decimal, Decimal)>" -> deserialize_levels(j)
      [] type = "Option<PositionUpdateType>" ->
           IF j.t = "null" THEN Ok(None)
           ELSE IF IsOk(deserialize_enum(PositionUpdateType, j))
           THEN Ok(Some(deserialize_enum(PositionUpdateType, j).value))
           ELSE deserialize_enum(PositionUpdateType, j)
      [] type = "Option<Decimal>" ->
           IF j.t = "null" THEN Ok(None)
           ELSE IF IsOk(deserialize_Decimal(j)) THEN Ok(Some(deserialize_Decimal(j).value))
           ELSE deserialize_Decimal(j)

IsOptionType(type) == type \in {"Option<PositionUpdateType>", "Option<Decimal>"}

\* The visitor of a derived Deserialize: the members of the JSON object are
\* taken in the order they are written; a key that names no field is
\* skipped, a key met twice is an error, and so is a value of the wrong
\* type; at the end every field that is not an Option must have been met.
\* slots holds, for every field, what was decoded for it so far.
RECURSIVE visit_map(_, _, _, _)
visit_map(fields, members, i, slots) ==
    IF i > Len(members)
    THEN IF \E k \in 1..Len(fields) :
               Len(slots[fields[k].field]) = 0 /\ ~IsOptionType(fields[k].type)
         THEN Err("DecodeError", "missing field")
         ELSE Ok([f \in DOMAIN slots |-> IF Len(slots[f]) = 0 THEN None ELSE slots[f][1]])
    ELSE LET key == members[i][1]
             named == {k \in 1..Len(fields) : fields[k].key = key}
         IN  IF named = {} THEN visit_map(fields, members, i + 1, slots)
             ELSE LET field == fields[CHOOSE k \in named : TRUE]
                      decoded == deserialize_field(field.type, members[i][2])
                  IN  IF Len(slots[field.field]) > 0 THEN Err("DecodeError", "duplicate field")
                      ELSE IF ~IsOk(decoded) THEN Err("DecodeError", field.field)
                      ELSE visit_map(fields, members, i + 1,
                                     [slots EXCEPT ![field.field] = <<decoded.value>>])

\* serde_json::from_str into a payload structure.
Stream_deserialize(struct, members) ==
    visit_map(StreamFields(struct), members, 1,
              [f \in {StreamFields(struct)[k].field : k \in 1..Len(StreamFields(struct))}
                 |-> <<>>])

-----------------------------------------------------------------------------
(* Applications of the library's pure functions.  eval records the last    *)
(* one: the function, its input and its output.                            *)

\* The wire strings the model decodes: every canonical string of every
\* enumeration, the same in lower and in upper case, and the empty string.
CanonicalStrings(e) == {serde_serialize(e, v) : v \in VariantsOf(e)}

WireStringSamples ==
    LET canon == UNION {CanonicalStrings(e) : e \in AllEnums}
    IN  canon \cup {to_ascii_lowercase(s) : s \in canon}
              \cup {to_ascii_uppercase(s) : s \in canon} \cup {""}

EnumNamed(n) == CHOOSE e \in AllEnums : e.name = n

\* Serialize a variant with serde.
SerializeEnum ==
    /\ AllIdle
    /\ \E e \in AllEnums : \E v \in VariantsOf(e) :
           eval' = Evaluated("serde_serialize", e.name, v, serde_serialize(e, v))
    /\ UNCHANGED <<base_url, callers, calls>>

\* Deserialize a wire string with serde.
DeserializeEnum ==
    /\ AllIdle
    /\ \E e \in AllEnums : \E s \in WireStringSamples :
           eval' = Evaluated("serde_deserialize", e.name, s, serde_deserialize(e, s))
    /\ UNCHANGED <<base_url, callers, calls>>

\* Format a variant with strum's Display.
DisplayEnum ==
    /\ AllIdle
    /\ \E e \in WireEnums : \E v \in VariantsOf(e) :
           eval' = Evaluated("strum_display", e.name, v, strum_display(e, v))
    /\ UNCHANGED <<base_url, callers, calls>>

\* Parse a wire string with strum's FromStr.
ParseEnum ==
    /\ AllIdle
    /\ \E e \in WireEnums : \E s \in WireStringSamples :
           eval' = Evaluated("strum_from_str", e.name, s, strum_from_str(e, s))
    /\ UNCHANGED <<base_url, callers, calls>>

\* Decode a search-parameter structure from a JSON object.
DeserializeSearchParams ==
    /\ AllIdle
    /\ \E struct \in SearchParamsStructs :
         \E o \in JsonObjectsOver(SearchParamsFields(struct)) :
           eval' = Evaluated("SearchParams_deserialize", struct, o,
                             SearchParams_deserialize(struct, JObj(o)))
    /\ UNCHANGED <<base_url, callers, calls>>

\* The search-parameter structures the model serializes.
SearchParamsSet(struct) ==
    CASE struct = "FillHistorySearchParams" -> FillHistorySearchParamsSet
      [] struct = "OrderHistorySearchParams" -> OrderHistorySearchParamsSet
      [] struct = "StrategyHistorySearchParams" -> StrategyHistorySearchParamsSet

\* Serialize a search-parameter structure to a JSON object.
SerializeSearchParams ==
    /\ AllIdle
    /\ \E struct \in SearchParamsStructs : \E p \in SearchParamsSet(struct) :
           eval' = Evaluated("SearchParams_serialize", struct, p,
                             SearchParams_serialize(struct, p))
    /\ UNCHANGED <<base_url, callers, calls>>

\* The longest fractional part of the decimal numerals the model enumerates.
MaxFracLen == 3

RECURSIVE DigitStringsUpTo(_)
DigitStringsUpTo(n) ==
    IF n = 0 THEN {""}
    ELSE LET shorter == DigitStringsUpTo(n - 1)
         IN  shorter \cup {s \o c : s \in shorter, c \in {"0", "1"}}

\* Numerals with every fractional part over 0 and 1 up to MaxFracLen digits.
ShortNumerals ==
    {"0"} \cup {i \o "." \o f : i \in {"0", "12"}, f \in DigitStringsUpTo(MaxFracLen) \ {""}}

\* The numerals of the repository's tests, and numerals at and beyond the
\* limits of the representation.
LongNumerals ==
    {"0.0001", "0.01", "0.0100", "173.35998175", "173.44031179",
     "-0.0000039641039274236048482914",
     "0.00000000000000000000000000001",
     "1.00000000000000000000000000005",
     "7.9228162514264337593543950335",
     "7.9228162514264337593543950336"}

BadNumerals == {"", "abc", "1.2.3", "79228162514264337593543950336"}

DecimalStrings == ShortNumerals \cup LongNumerals \cup BadNumerals

\* Decode a decimal field from a JSON string.
DeserializeDecimal ==
    /\ AllIdle
    /\ \E s \in DecimalStrings :
           eval' = Evaluated("Decimal_deserialize", "", s, Decimal_deserialize(s))
    /\ UNCHANGED <<base_url, callers, calls>>

\* Serialize the decimal that was just decoded.
SerializeDecimal ==
    /\ eval.fn = "Decimal_deserialize"
    /\ IsOk(eval.output[1])
    /\ eval' = EvaluatedFrom("Decimal_serialize", eval.input[1], eval.output[1].value,
                             Decimal_serialize(eval.output[1].value))
    /\ UNCHANGED <<base_url, callers, calls>>

TickSizeStrings == {"0.0001", "0.01", "0.0100", "1", "0.00000000000000000000000000001"}

MarketSymbols == {"SOL_USDC", "BTC_USDC"}

\* Derive the precision of a market whose filters were decoded from text.
MarketDecimalPlaces ==
    /\ AllIdle
    /\ \E symbol \in MarketSymbols : \E tick, step, min_price, min_qty \in TickSizeStrings :
         LET market == MakeMarket(symbol, Decimal_deserialize(min_price).value,
                                  Decimal_deserialize(tick).value,
                                  Decimal_deserialize(min_qty).value,
                                  Decimal_deserialize(step).value)
         IN  eval' = EvaluatedFrom("decimal_places",
                                   [tick_size |-> tick, step_size |-> step],
                                   market,
                                   [price |-> price_decimal_places(market),
                                    quantity |-> quantity_decimal_places(market)])
    /\ UNCHANGED <<base_url, callers, calls>>

\* The payloads the model decodes.  The timestamps are short numbers.
Member(key, value) == <<key, value>>

MarkPricePayload(funding_rate) ==
    <<Member("E", JNum("1747")), Member("T", JNum("1746")), Member("e", JStr("markPrice")),
      Member("f", JStr(funding_rate)), Member("i", JStr("173.44031179")),
      Member("n", JNum("1748")), Member("p", JStr("173.35998175")),
      Member("s", JStr("SOL_USDC_PERP"))>>

StreamPayload(struct) ==
    CASE struct = "PositionUpdate" ->
           <<Member("e", JStr("positionOpened")), Member("E", JNum("1747")),
             Member("s", JStr("SOL_USDC_PERP")), Member("b", JStr("150.10")),
             Member("B", JStr("150.20")), Member("f", JStr("0.02")),
             Member("M", JStr("151.30")), Member("m", JStr("0.0135")),
             Member("q", JStr("1.5")), Member("Q", JStr("1.6")), Member("n", JStr("226.95")),
             Member("i", JNum("42")), Member("p", JStr("-1.25")), Member("P", JStr("0.75")),
             Member("T", JNum("1746"))>>
      [] struct = "OpenInterestUpdate" ->
           <<Member("e", JStr("openInterest")), Member("E", JNum("1747")),
             Member("s", JStr("SOL_USDC_PERP")), Member("o", JStr("190112.13"))>>
      [] struct = "TickerUpdate" ->
           <<Member("e", JStr("bookTicker")), Member("E", JNum("1747")),
             Member("s", JStr("SOL_USDC")), Member("a", JStr("18.70")),
             Member("A", JStr("1.000")), Member("b", JStr("18.67")),
             Member("B", JStr("2.000")), Member("u", JNum("111")), Member("T", JNum("1746"))>>
      [] struct = "TickerStatisticsUpdate" ->
           <<Member("e", JStr("ticker")), Member("E", JNum("1747")),
             Member("s", JStr("SOL_USDC")), Member("o", JStr("18.75")),
             Member("c", JStr("19.24")), Member("h", JStr("19.80")),
             Member("l", JStr("18.50")), Member("v", JStr("32123")),
             Member("V", JStr("928190")), Member("n", JNum("93828"))>>
      [] struct = "OrderBookDepthUpdate" ->
           <<Member("e", JStr("depth")), Member("E", JNum("1747")),
             Member("s", JStr("SOL_USDC")), Member("T", JNum("1746")),
             Member("U", JNum("110")), Member("u", JNum("111")),
             Member("a", JArr(<<JArr(<<JStr("18.70"), JStr("0.000")>>)>>)),
             Member("b", JArr(<<JArr(<<JStr("18.67"), JStr("0.832")>>),
                                JArr(<<JStr("18.68"), JStr("0.000")>>)>>))>>
      [] struct = "KlineUpdate" ->
           <<Member("e", JStr("kline")), Member("E", JNum("1747")),
             Member("s", JStr("SOL_USDC")), Member("t", JStr("2024-09-11T12:00:00")),
             Member("T", JStr("2024-09-11T12:01:00")), Member("o", JStr("18.75")),
             Member("c", JStr("19.25")), Member("h", JStr("19.80")),
             Member("l", JStr("18.50")), Member("v", JStr("32123")), Member("n", JNum("93828")),
             Member("X", JBool("false"))>>
      [] struct = "MarkPriceUpdate" ->
           MarkPricePayload("-0.0000039641039274236048482914")

\* The members of a payload from the n-th on, the first ones after the last.
Rotated(members, n) ==
    [i \in 1..Len(members) |-> members[((i + n - 1) % Len(members)) + 1]]

Reversed(members) == [i \in 1..Len(members) |-> members[Len(members) + 1 - i]]

Without(members, k) == SubSeq(members, 1, k - 1) \o SubSeq(members, k + 1, Len(members))

\* The orders the model writes the members of a payload in.
MemberOrders(members) ==
    [i \in 1..(2 * Len(members)) |->
        IF i <= Len(members) THEN Rotated(members, i - 1)
        ELSE Reversed(Rotated(members, i - 1 - Len(members)))]

\* The documents decoded as a payload structure: its payload in each order,
\* and with one member missing; for the mark price also a funding rate
\* written with 29 fractional digits.
StreamPayloads(struct) ==
    MemberOrders(StreamPayload(struct))
    \o [k \in 1..Len(StreamPayload(struct)) |-> Without(StreamPayload(struct), k)]
    \o (IF struct = "MarkPriceUpdate"
        THEN MemberOrders(MarkPricePayload("-0.00000000000000000000000000015"))
        ELSE <<>>)

\* Decode a WebSocket payload.
DeserializeStreamPayload ==
    /\ AllIdle
    /\ \E struct \in StreamStructs : \E i \in 1..Len(StreamPayloads(struct)) :
         eval' = Evaluated("Stream_deserialize", struct, StreamPayloads(struct)[i],
                           Stream_deserialize(struct, StreamPayloads(struct)[i]))
    /\ UNCHANGED <<base_url, callers, calls>>

\* The caller drops the value of the last application.
DropEval ==
    /\ eval # NoEval
    /\ eval' = NoEval
    /\ UNCHANGED <<base_url, callers, calls>>

-----------------------------------------------------------------------------
Init ==
    /\ base_url = "https://api.example.com"
    /\ callers = {1}
    /\ calls = [c \in {1} |-> IdleCall]
    /\ eval = NoEval

Next ==
    \/ \E c \in callers : get_fill_history(c)
    \/ \E c \in callers : get_order_history(c)
    \/ \E c \in callers : get_strategy_history(c)
    \/ \E c \in callers : get_account(c)
    \/ \E c \in callers : get_account_max_borrow(c)
    \/ \E c \in callers : get_account_max_order_quantity(c)
    \/ \E c \in callers : get_account_max_withdrawal(c)
    \/ \E c \in callers : update_account(c)
    \/ \E c \in callers : convert_dust_balance(c)
    \/ \E c \in callers : get_assets(c)
    \/ \E c \in callers : get_market(c)
    \/ \E c \in callers : get_markets(c)
    \/ \E c \in callers : get_all_mark_prices(c)
    \/ \E c \in callers : get_ticker(c)
    \/ \E c \in callers : get_tickers(c)
    \/ \E c \in callers : get_order_book_depth(c)
    \/ \E c \in callers : get_funding_interval_rates(c)
    \/ \E c \in callers : get_k_lines(c)
    \/ \E c \in callers : get_open_future_positions(c)
    \/ \E c \in callers : get_borrow_lend_positions(c)
    \/ \E c \in callers : get_borrow_lend_markets(c)
    \/ \E c \in callers : Complete(c)
    \/ \E c \in callers : Return(c)
    \/ SerializeEnum
    \/ DeserializeEnum
    \/ DisplayEnum
    \/ ParseEnum
    \/ DeserializeSearchParams
    \/ SerializeSearchParams
    \/ DeserializeDecimal
    \/ SerializeDecimal
    \/ MarketDecimalPlaces
    \/ DeserializeStreamPayload
    \/ DropEval

Spec == Init /\ [][Next]_vars

\* Two callers on the same client: either enters an operation whenever it
\* has none in flight, whatever the other is doing.
InitConcurrent ==
    /\ base_url = "https://api.example.com"
    /\ callers = {1, 2}
    /\ calls = [c \in {1, 2} |-> IdleCall]
    /\ eval = NoEval

NextConcurrent ==
    \/ \E c \in callers : get_fill_history(c)
    \/ \E c \in callers : get_order_history(c)
    \/ \E c \in callers : get_strategy_history(c)
    \/ \E c \in callers : update_account(c)
    \/ \E c \in callers : get_order_book_depth(c)
    \/ \E c \in callers : get_open_future_positions(c)
    \/ \E c \in callers : Complete(c)
    \/ \E c \in callers : Return(c)

SpecConcurrent == InitConcurrent /\ [][NextConcurrent]_vars

-----------------------------------------------------------------------------
(* Measures on the strings the library writes.                             *)

\* The number of occurrences of the character c in s.
CountChar(s, c) == Cardinality({i \in 1..Len(s) : CharAt(s, i) = c})

\* The pieces of s between the occurrences of c.
RECURSIVE Split(_, _)
Split(s, c) ==
    LET i == FirstIndex(s, c, 1)
    IN  IF i = 0 THEN <<s>>
        ELSE <<SubSeq(s, 1, i - 1)>> \o Split(SubSeq(s, i + 1, Len(s)), c)

\* The number of digits written after the point in a decimal numeral.
FractionalDigits(s) ==
    LET dot == FirstIndex(s, ".", 1)
    IN  IF dot = 0 THEN 0 ELSE Len(s) - dot

-----------------------------------------------------------------------------
(* The canonical wire names, as the specification tabulates them.          *)

MarketTypeWire ==
    [Spot |-> "SPOT", Perp |-> "PERP", Iperp |-> "IPERP", Dated |-> "DATED",
     Prediction |-> "PREDICTION", Rfq |-> "RFQ"]

\* The canonical wire string of variant v of enumeration e: the upper-case
\* table for MarketType, the camelCase one for PositionUpdateType, the
\* PascalCase variant name for the others.
PositionUpdateTypeWire ==
    [PositionAdjusted |-> "positionAdjusted", PositionOpened |-> "positionOpened",
     PositionClosed |-> "positionClosed"]

WireName(e, v) ==
    IF e.name = "MarketType" THEN MarketTypeWire[v]
    ELSE IF e.name = "PositionUpdateType" THEN PositionUpdateTypeWire[v]
    ELSE v

WireNames(e) == {WireName(e, v) : v \in VariantsOf(e)}

-----------------------------------------------------------------------------
(* Properties of the query-string encoder of the history endpoints.        *)

HistoryOps == {"get_fill_history", "get_order_history", "get_strategy_history"}

FieldsOf(op) ==
    CASE op = "get_fill_history" -> FillHistoryFields
      [] op = "get_order_history" -> OrderHistoryFields
      [] op = "get_strategy_history" -> StrategyHistoryFields

PathOf(op) ==
    CASE op = "get_fill_history" -> "/wapi/v1/history/fills"
      [] op = "get_order_history" -> "/wapi/v1/history/orders"
      [] op = "get_strategy_history" -> "/wapi/v1/history/strategies"

\* The fields of p that are set, in declaration order.
RECURSIVE SetFieldsFrom(_, _, _)
SetFieldsFrom(fields, p, i) ==
    IF i > Len(fields) THEN <<>>
    ELSE (IF IsSome(p[fields[i]]) THEN <<fields[i]>> ELSE <<>>)
             \o SetFieldsFrom(fields, p, i + 1)

SetFields(op, p) == SetFieldsFrom(FieldsOf(op), p, 1)

\* The wire form of the value of a set field: strings as they are, integers
\* in decimal, enumerations by their canonical wire name.
WireValue(field, v) ==
    CASE field \in {"order_id", "strategy_id", "symbol"} -> v
      [] field \in {"from", "to"} -> fmt_i64(v)
      [] field \in {"limit", "offset"} -> fmt_u64(v)
      [] field = "fill_type" -> WireName(FillType, v)
      [] field = "market_type" -> WireName(MarketType, v)
      [] field = "sort_direction" -> WireName(SortDirection, v)

\* The key=value pairs of the set fields of p, in declaration order.
ExpectedPairs(op, p) ==
    LET set == SetFields(op, p)
    IN  [i \in 1..Len(set) |-> set[i] \o "=" \o WireValue(set[i], p[set[i]][1])]

RECURSIVE SumLen(_)
SumLen(strings) == IF Len(strings) = 0 THEN 0 ELSE Len(strings[1]) + SumLen(Tail(strings))

RECURSIVE SumCount(_, _)
SumCount(strings, c) ==
    IF Len(strings) = 0 THEN 0 ELSE CountChar(strings[1], c) + SumCount(Tail(strings), c)

\* What follows the path in a request URL.
QueryStringOf(op, url) == SubSeq(url, Len(base_url) + Len(PathOf(op)) + 1, Len(url))

\* What a server reads from a query string: the text after the '?' is split
\* on '&', and each non-empty piece on its first '='.
NonEmpty(piece) == piece # ""

ServerPairs(query) ==
    IF query = "" THEN <<>>
    ELSE SelectSeq(Split(SubSeq(query, 2, Len(query)), "&"), NonEmpty)

KeyOf(pair) ==
    LET eq == FirstIndex(pair, "=", 1)
    IN  IF eq = 0 THEN pair ELSE SubSeq(pair, 1, eq - 1)

ServerKeySeq(query) ==
    LET pairs == ServerPairs(query) IN [i \in 1..Len(pairs) |-> KeyOf(pairs[i])]

ServerKeys(query) == RangeOf(ServerKeySeq(query))

\* The history requests in flight: the arguments are still at hand.
HistoryRequests == {c \in callers : calls[c].pc = "awaiting" /\ calls[c].op \in HistoryOps}

ArgsOf(c) == calls[c].args[1]

QueryOfCall(c) == QueryStringOf(calls[c].op, calls[c].request[1].url)

\* The set string fields of the call hold none of the characters that
\* delimit a query string.
IsPlainCall(c) ==
    \A f \in RangeOf(SetFields(calls[c].op, ArgsOf(c))) \cap {"order_id", "strategy_id", "symbol"} :
        \A ch \in {"&", "=", "?"} : CountChar(ArgsOf(c)[f][1], ch) = 0

\* C1: for every history request, the set of keys a server obtains by
\* splitting the emitted query string on '&' and '=' is exactly the set of
\* fields the caller has set, whatever strings order_id, strategy_id and
\* symbol hold.
C1_ServerKeysAreSetFields ==
    \A c \in HistoryRequests :
        ServerKeys(QueryOfCall(c)) = RangeOf(SetFields(calls[c].op, ArgsOf(c)))

\* The fill-history request whose only set field is symbol = X&limit=5: the
\* server reads a limit key the caller has not set.
C1_Witness ==
    \E c \in HistoryRequests :
        /\ calls[c].op = "get_fill_history"
        /\ SetFields(calls[c].op, ArgsOf(c)) = <<"symbol">>
        /\ ArgsOf(c).symbol = Some("X&limit=5")
        /\ calls[c].request[1].url
             = "https://api.example.com/wapi/v1/history/fills?symbol=X&limit=5"
        /\ ServerKeys(QueryOfCall(c)) = {"symbol", "limit"}

C3_KeysInDeclaredOrder ==
    \A c \in HistoryRequests :
        LET q == QueryOfCall(c)
            pairs == ExpectedPairs(calls[c].op, ArgsOf(c))
        IN  /\ q = (IF Len(pairs) = 0 THEN "" ELSE "?" \o join(pairs, "&"))
            /\ IsPlainCall(c) => ServerKeySeq(q) = SetFields(calls[c].op, ArgsOf(c))
            /\ ( /\ calls[c].op = "get_fill_history"
                 /\ SetFields(calls[c].op, ArgsOf(c)) = <<"symbol", "limit">>
                 /\ ArgsOf(c).symbol = Some("SOL_USDC")
                 /\ ArgsOf(c).limit = Some(50) )
               => calls[c].request[1].url
                    = "https://api.example.com/wapi/v1/history/fills?symbol=SOL_USDC&limit=50"

\* The fill-history request with symbol = SOL_USDC and limit = 50 only.
C3_Witness ==
    \E c \in HistoryRequests :
        /\ calls[c].op = "get_fill_history"
        /\ SetFields(calls[c].op, ArgsOf(c)) = <<"symbol", "limit">>
        /\ ArgsOf(c).symbol = Some("SOL_USDC")
        /\ ArgsOf(c).limit = Some(50)
        /\ QueryOfCall(c) = "?symbol=SOL_USDC&limit=50"

-----------------------------------------------------------------------------
(* Properties of decoding the search-parameter structures.                 *)

\* The JSON key of each field.
JsonKey ==
    [order_id |-> "orderId", strategy_id |-> "strategyId", from |-> "from", to |-> "to",
     symbol |-> "symbol", limit |-> "limit", offset |-> "offset",
     fill_type |-> "fillType", market_type |-> "marketType",
     sort_direction |-> "sortDirection"]

\* What an absent field decodes to.
AbsentValue(field) ==
    IF field = "limit" THEN Some(100) ELSE IF field = "offset" THEN Some(0) ELSE None

\* C4: a search-parameter structure decoded from a JSON object has
\* limit = 100 when the object lacks the limit key, offset = 0 when it lacks
\* the offset key, and every other field whose key is absent unset; the
\* empty object decodes.
C4_AbsentFieldsTakeDefaults ==
    (eval.fn = "SearchParams_deserialize") =>
        LET obj == eval.input[1]
            out == eval.output[1]
            fields == RangeOf(SearchParamsFields(eval.enum))
        IN  /\ (\A f \in fields : JsonKey[f] \notin DOMAIN obj) => IsOk(out)
            /\ IsOk(out) =>
                 /\ DOMAIN out.value = fields
                 /\ \A f \in fields :
                        (JsonKey[f] \notin DOMAIN obj) => (out.value[f] = AbsentValue(f))

\* An order-history structure decoded from an object with the symbol only.
C4_Witness ==
    /\ eval.fn = "SearchParams_deserialize"
    /\ eval.enum = "OrderHistorySearchParams"
    /\ DOMAIN eval.input[1] = {"symbol"}
    /\ IsOk(eval.output[1])
    /\ eval.output[1].value.symbol = Some("SOL_USDC")
    /\ eval.output[1].value.limit = Some(100)
    /\ eval.output[1].value.offset = Some(0)
    /\ eval.output[1].value.order_id = None

-----------------------------------------------------------------------------
(* Properties of the wire enumerations.                                    *)

WireEnumNames == {e.name : e \in WireEnums}

StatusEnumNames == {e.name : e \in StatusEnums}

Encode(fn, e, v) ==
    IF fn \in {"serde_serialize", "serde_deserialize"} THEN serde_serialize(e, v)
    ELSE strum_display(e, v)

Decode(fn, e, s) ==
    IF fn \in {"serde_serialize", "serde_deserialize"} THEN serde_deserialize(e, s)
    ELSE strum_from_str(e, s)

IsLetter(c) == IsUpperChar(c) \/ IsLowerChar(c)

\* A PascalCase name: letters only, the first of them upper-case, and no
\* two words run together in capitals.
IsPascalCase(s) ==
    /\ Len(s) > 0
    /\ IsUpperChar(CharAt(s, 1))
    /\ \A i \in 1..Len(s) : IsLetter(CharAt(s, i))
    /\ \A i \in 1..(Len(s) - 1) : ~(IsUpperChar(CharAt(s, i)) /\ IsUpperChar(CharAt(s, i + 1)))

\* C5: for each of the ten wire enumerations, decoding the encoding of a
\* variant gives that variant back, and encoding the decoding of a canonical
\* wire string gives that string back (serde, and strum's Display / FromStr).
C5_EnumRoundTrip ==
    LET e == EnumNamed(eval.enum) IN
    /\ (eval.fn \in {"serde_serialize", "strum_display"} /\ eval.enum \in WireEnumNames) =>
           LET back == Decode(eval.fn, e, eval.output[1])
           IN  IsOk(back) /\ back.value = eval.input[1]
    /\ ( /\ eval.fn \in {"serde_deserialize", "strum_from_str"}
         /\ eval.enum \in WireEnumNames
         /\ eval.input[1] \in WireNames(e) ) =>
           /\ IsOk(eval.output[1])
           /\ Encode(eval.fn, e, eval.output[1].value) = eval.input[1]

\* IPERP decoded as a MarketType: the variant encodes to IPERP again.
C5_Witness ==
    /\ eval.fn = "serde_deserialize"
    /\ eval.enum = "MarketType"
    /\ eval.input = Some("IPERP")
    /\ IsOk(eval.output[1])
    /\ eval.output[1].value = "Iperp"
    /\ serde_serialize(MarketType, eval.output[1].value) = "IPERP"

\* C6: decoding a string that is not the canonical wire string of a variant
\* of the target enumeration, a canonical string in the wrong case included,
\* fails with UnknownVariant; no variant is substituted, and Unknown is the
\* result only of the string Unknown.
C6_NonCanonicalStringFails ==
    (eval.fn \in {"serde_deserialize", "strum_from_str"}) =>
        LET e == EnumNamed(eval.enum)
            out == eval.output[1]
        IN  /\ (eval.input[1] \notin WireNames(e)) => (out.kind = "UnknownVariant")
            /\ IsOk(out) => (WireName(e, out.value) = eval.input[1])
            /\ (IsOk(out) /\ out.value = "Unknown") => (eval.input[1] = "Unknown")

\* The MarketType name in lower case is refused.
C6_Witness ==
    /\ eval.fn = "serde_deserialize"
    /\ eval.enum = "MarketType"
    /\ eval.input = Some("spot")
    /\ eval.output[1].kind = "UnknownVariant"

\* C7: a variant has one wire string, the same for serde and for Display,
\* and no two variants of an enumeration share theirs; the strings of
\* MarketType are SPOT, PERP, IPERP, DATED, PREDICTION and RFQ, all in upper
\* case, and those of the status, reason and type enumerations are the
\* PascalCase names of the variants.
C7_WireNamesInjectiveAndCased ==
    (eval.fn \in {"serde_serialize", "strum_display"}) =>
        LET e == EnumNamed(eval.enum)
            v == eval.input[1]
            s == eval.output[1]
        IN  /\ \A w \in VariantsOf(e) \ {v} : Encode(eval.fn, e, w) # s
            /\ (eval.enum \in WireEnumNames) =>
                   (serde_serialize(e, v) = s /\ strum_display(e, v) = s)
            /\ (eval.enum = "MarketType") =>
                   /\ s = MarketTypeWire[v]
                   /\ s \in {"SPOT", "PERP", "IPERP", "DATED", "PREDICTION", "RFQ"}
                   /\ \A i \in 1..Len(s) : IsUpperChar(CharAt(s, i))
            /\ (eval.enum \in StatusEnumNames) => (s = v /\ IsPascalCase(s))

\* The Prediction market type is written PREDICTION.
C7_Witness ==
    /\ eval.fn = "serde_serialize"
    /\ eval.enum = "MarketType"
    /\ eval.input = Some("Prediction")
    /\ eval.output = Some("PREDICTION")

-----------------------------------------------------------------------------
(* Properties of decimals and of the precision a market derives from them. *)

\* The digits of a numeral, without its sign and its point.
NumeralDigits(text) ==
    LET body == IF Len(text) > 0 /\ Head(text) \in {"-", "+"} THEN Tail(text) ELSE text
        dot == FirstIndex(body, ".", 1)
    IN  IF dot = 0 THEN body
        ELSE SubSeq(body, 1, dot - 1) \o SubSeq(body, dot + 1, Len(body))

\* The numeral is within what a decimal holds: at most 28 fractional digits
\* and a mantissa below 2^96.
WithinPrecision(text) ==
    /\ FractionalDigits(text) <= Decimal_MAX_SCALE
    /\ FitsMantissa(NumeralDigits(text))

DecodedTickSizes == {Decimal_deserialize(t).value : t \in TickSizeStrings}

\* C8: price_decimal_places is the number of fractional digits of tick_size
\* as the decimal represents it and quantity_decimal_places that of
\* step_size, whatever the other fields of the market are: 0.0001 gives 4,
\* 0.01 gives 2, and 0.0100 gives 4 although it equals 0.01.
C8_DecimalPlacesAreScales ==
    (eval.fn = "decimal_places") =>
        LET market == eval.input[1]
            out == eval.output[1]
            text == eval.origin[1]
            tick == market.filters.price.tick_size
            step == market.filters.quantity.step_size
        IN  /\ out.price = FractionalDigits(Decimal_to_string(tick))
            /\ out.quantity = FractionalDigits(Decimal_to_string(step))
            /\ WithinPrecision(text.tick_size) => (out.price = FractionalDigits(text.tick_size))
            /\ WithinPrecision(text.step_size) =>
                   (out.quantity = FractionalDigits(text.step_size))
            /\ (text.tick_size = "0.0001") => (out.price = 4)
            /\ (text.tick_size = "0.01") => (out.price = 2)
            /\ (text.tick_size = "0.0100") => (out.price = 4)
            /\ (text.step_size = "0.0001") => (out.quantity = 4)
            /\ (text.step_size = "0.01") => (out.quantity = 2)
            /\ (text.step_size = "0.0100") => (out.quantity = 4)
            /\ \A symbol \in MarketSymbols : \A a, b, c \in DecodedTickSizes :
                   /\ price_decimal_places(MakeMarket(symbol, a, tick, b, c)) = out.price
                   /\ quantity_decimal_places(MakeMarket(symbol, a, b, c, step)) = out.quantity

\* A market with tick_size 0.0100 and step_size 0.01: four places and two.
C8_Witness ==
    /\ eval.fn = "decimal_places"
    /\ eval.origin = Some([tick_size |-> "0.0100", step_size |-> "0.01"])
    /\ eval.output = Some([price |-> 4, quantity |-> 2])

\* C9: a decimal decoded from a string with N fractional digits is written
\* back with exactly N fractional digits.
C9_FractionalDigitsPreserved ==
    (eval.fn = "Decimal_serialize") =>
        (FractionalDigits(eval.output[1]) = FractionalDigits(eval.origin[1]))

\* A numeral with 29 fractional digits is written back with 28.
C9_Witness ==
    /\ eval.fn = "Decimal_serialize"
    /\ eval.origin = Some("0.00000000000000000000000000001")
    /\ FractionalDigits(eval.origin[1]) = 29
    /\ eval.output = Some("0.0000000000000000000000000000")
    /\ FractionalDigits(eval.output[1]) = 28

\* The same within the precision of the decimal type: a decimal decoded from a
\* string with N <= 28 fractional digits whose digits make a mantissa below
\* 2^96 is written back with exactly N fractional digits, the same ones; a
\* numeral beyond that precision is rounded and written with fewer than N.
C9_FractionalDigitsPreservedWithinPrecision ==
    (eval.fn = "Decimal_serialize") =>
        LET text == eval.origin[1]
            out == eval.output[1]
            n == FractionalDigits(text)
        IN  /\ WithinPrecision(text) =>
                 /\ FractionalDigits(out) = n
                 /\ SubSeq(out, Len(out) - n + 1, Len(out))
                        = SubSeq(text, Len(text) - n + 1, Len(text))
            /\ ~WithinPrecision(text) => (FractionalDigits(out) < n)

\* 0.0100 is written back as 0.0100.
C9_WitnessWithinPrecision ==
    /\ eval.fn = "Decimal_serialize"
    /\ eval.origin = Some("0.0100")
    /\ eval.output = Some("0.0100")

-----------------------------------------------------------------------------
(* Properties of the request dispatcher.                                   *)

\* The calls that have run to their end.
FinishedCalls == {c \in callers : calls[c].pc = "done"}

\* C10: when the transport returns an HTTP response whose status is not in
\* 200..299, the operation, whichever it is, returns an ApiError that carries
\* that status code and the raw body of the response: not a decode failure,
\* not a success value, not an empty result.
C10_NonSuccessIsApiError ==
    \A c \in FinishedCalls :
        LET response == calls[c].response[1]
            result == calls[c].result[1]
        IN  (response.kind = "Http" /\ ~(response.status \in 200..299)) =>
                /\ result.kind = "ApiError"
                /\ result.status_code = response.status
                /\ result.message = response.body

\* update_account answered by a 400 with a JSON error body.
C10_Witness ==
    \E c \in FinishedCalls :
        /\ calls[c].op = "update_account"
        /\ calls[c].response[1].kind = "Http"
        /\ calls[c].response[1].status = 400
        /\ calls[c].response[1].body = ErrorBody
        /\ calls[c].result[1].kind = "ApiError"
        /\ calls[c].result[1].status_code = 400

-----------------------------------------------------------------------------
(* The outcome classes of an operation *)

ResponseOf(c) == calls[c].response[1]

ResultOf(c) == calls[c].result[1]

IsHttpSuccess(outcome) == outcome.kind = "Http" /\ is_success(outcome.status)

\* Whether a body carries what the declared result type asks for.
BodyMatches(type, body) ==
    IF type.list
    THEN body.t = "arr" /\ \A i \in 1..Len(body.v) : has_required_fields(type.struct, body.v[i])
    ELSE has_required_fields(type.struct, body)

\* C11: every finished operation ends in exactly one of four outcomes, a
\* success, a transport failure, an API error or a decode error; the failure
\* class tells what happened (a transport failure exactly when the transport
\* failed, an API error exactly when the status is not 2xx, a decode error
\* only on a 2xx response), and a 2xx body that does not match the declared
\* result type is a decode error, never a success.
C11_OutcomeClasses ==
    \A c \in FinishedCalls :
        LET op == calls[c].op
            outcome == ResponseOf(c)
            kind == ResultOf(c).kind
        IN  /\ kind \in {"Ok", "TransportFailure", "ApiError", "DecodeError"}
            /\ kind = "TransportFailure" <=> outcome.kind = "TransportFailure"
            /\ kind = "ApiError" <=> outcome.kind = "Http" /\ ~is_success(outcome.status)
            /\ kind = "DecodeError" => IsHttpSuccess(outcome) /\ op \notin UnitOps
            /\ (IsHttpSuccess(outcome) /\ op \notin UnitOps
                   /\ ~BodyMatches(ResultType(op), outcome.body))
                 => kind = "DecodeError"

\* get_market has received a 200 whose body is the server's error object.
C11_Witness ==
    \E c \in FinishedCalls :
        /\ calls[c].op = "get_market"
        /\ ResponseOf(c).kind = "Http" /\ ResponseOf(c).status = 200
        /\ ResponseOf(c).body.t = "obj" /\ "code" \in DOMAIN ResponseOf(c).body.v
        /\ ResultOf(c).kind = "DecodeError"

-----------------------------------------------------------------------------
(* One request and one report per call *)

\* C12: a call hands exactly one request to the transport and reports its
\* outcome exactly once: entering an operation sends one request; whatever
\* the transport answers, failures included, the next step of the call is
\* its end, with no further request and with one result; and the only step
\* after that is the caller taking this result, which ends the call.
C12_OneRequestOneReport ==
    [][\A c \in callers :
          /\ calls'[c].sent <= 1
          /\ (calls[c].pc = "idle" /\ calls'[c] # calls[c])
               => /\ calls'[c].pc = "awaiting"
                  /\ calls'[c].sent = 1
                  /\ IsSome(calls'[c].request) /\ calls'[c].result = None
          /\ (calls[c].pc = "awaiting" /\ calls'[c] # calls[c])
               => /\ calls'[c].pc = "done"
                  /\ calls'[c].sent = calls[c].sent
                  /\ IsSome(calls'[c].response) /\ IsSome(calls'[c].result)
          /\ (calls[c].pc = "done" /\ calls'[c] # calls[c])
               => /\ calls'[c].pc = "idle"
                  /\ calls'[c].sent = 0
                  /\ calls'[c].result = None]_vars

\* A call has ended on a transport failure, after its one request.
C12_Witness ==
    \E c \in FinishedCalls :
        /\ ResponseOf(c).kind = "TransportFailure"
        /\ calls[c].sent = 1
        /\ ResultOf(c).kind = "TransportFailure"

-----------------------------------------------------------------------------
(* Calls side by side on one client *)

ClientBase == "https://api.example.com"

\* The URL of an operation of the concurrent specification, from the
\* arguments of the call alone.
UrlOf(op, args) ==
    CASE op = "get_fill_history" -> get_fill_history_url(ClientBase, args)
      [] op = "get_order_history" -> get_order_history_url(ClientBase, args)
      [] op = "get_strategy_history" -> get_strategy_history_url(ClientBase, args)
      [] op = "update_account" -> ClientBase \o API_ACCOUNT
      [] op = "get_order_book_depth" -> get_order_book_depth_url(ClientBase, args)
      [] op = "get_open_future_positions" -> get_open_future_positions_url(ClientBase, args)

\* C13: with two callers on the same client, in every interleaving, a step
\* of one call leaves the base URL and the other caller's call as they are;
\* the URL a call sends is the one its own arguments give, and the result it
\* returns is the one its own response gives.
C13_CallsAreIndependent ==
    [][/\ base_url' = base_url
       /\ \A c \in callers :
             calls'[c] # calls[c]
             => /\ \A d \in callers \ {c} : calls'[d] = calls[d]
                /\ calls'[c].pc = "awaiting"
                     => calls'[c].request[1].url = UrlOf(calls'[c].op, calls'[c].args[1])
                /\ calls'[c].pc = "done"
                     => /\ calls'[c].op = calls[c].op
                        /\ calls'[c].result[1] = finish(calls[c].op, calls'[c].response[1])]_vars

\* One caller's call has ended while another caller's call, of another
\* operation, is waiting for its response.
C13_Witness ==
    \E c, d \in callers :
        /\ c # d
        /\ calls[c].pc = "done" /\ calls[d].pc = "awaiting"
        /\ calls[c].op = "get_fill_history" /\ calls[d].op = "get_open_future_positions"

-----------------------------------------------------------------------------
(* The order book *)

DepthCalls == {c \in callers : calls[c].op = "get_order_book_depth"}

\* A 200 response whose body is an order book.
IsDepthResponse(outcome) ==
    /\ outcome.kind = "Http" /\ outcome.status = 200
    /\ outcome.body.t = "obj" /\ "asks" \in DOMAIN outcome.body.v

\* The decoded levels are the levels of the body, one for one and in the
\* same order, each decimal written with the digits of the body.
SameLevels(decoded, written) ==
    /\ Len(decoded) = Len(written.v)
    /\ \A i \in 1..Len(decoded) : \A k \in 1..2 :
           Decimal_to_string(decoded[i][k]) = written.v[i].v[k].v

\* Whether every decimal of the levels is within the precision of Decimal.
LevelsWithinPrecision(written) ==
    \A i \in 1..Len(written.v) : \A k \in 1..2 : WithinPrecision(written.v[i].v[k].v)

\* C14: get_order_book_depth(symbol) requests exactly the base URL followed
\* by /api/v1/depth?symbol= and the symbol, and on a 200 response with an
\* order book it returns an OrderBookDepth whose asks and bids are those of
\* the body, in the same order, each price and quantity with the exact
\* decimal digits of the body.
C14_DepthUrlAndLevels ==
    \A c \in DepthCalls :
        /\ calls[c].pc = "awaiting"
             => calls[c].request[1].url
                  = "https://api.example.com" \o "/api/v1/depth?symbol=" \o calls[c].args[1]
        /\ (calls[c].pc = "done" /\ IsDepthResponse(ResponseOf(c)))
             => /\ IsOk(ResultOf(c))
                /\ SameLevels(ResultOf(c).value.asks, ResponseOf(c).body.v["asks"])
                /\ SameLevels(ResultOf(c).value.bids, ResponseOf(c).body.v["bids"])

\* The order book came back with a best ask written with 29 fractional
\* digits, and the call returned it with 28.
C14_Witness ==
    \E c \in DepthCalls :
        /\ calls[c].pc = "done" /\ IsDepthResponse(ResponseOf(c))
        /\ ResponseOf(c).body.v["asks"].v[1].v[1].v = "0.00000000000000000000000000015"
        /\ IsOk(ResultOf(c))
        /\ Decimal_to_string(ResultOf(c).value.asks[1][1]) = "0.0000000000000000000000000002"

\* The same for the order books whose decimals a Decimal can hold.
C14_DepthUrlAndLevelsWithinPrecision ==
    \A c \in DepthCalls :
        /\ calls[c].pc = "awaiting"
             => calls[c].request[1].url
                  = "https://api.example.com" \o "/api/v1/depth?symbol=" \o calls[c].args[1]
        /\ (/\ calls[c].pc = "done" /\ IsDepthResponse(ResponseOf(c))
            /\ LevelsWithinPrecision(ResponseOf(c).body.v["asks"])
            /\ LevelsWithinPrecision(ResponseOf(c).body.v["bids"]))
             => /\ IsOk(ResultOf(c))
                /\ SameLevels(ResultOf(c).value.asks, ResponseOf(c).body.v["asks"])
                /\ SameLevels(ResultOf(c).value.bids, ResponseOf(c).body.v["bids"])

\* BTC_USDC: the request is out, and the two asks and the bid of a 200
\* response came back as written.
C14_WitnessWithinPrecision ==
    \E c \in DepthCalls :
        \/ /\ calls[c].pc = "done" /\ IsDepthResponse(ResponseOf(c))
           /\ IsOk(ResultOf(c))
           /\ Len(ResultOf(c).value.asks) = 2
           /\ Decimal_to_string(ResultOf(c).value.asks[2][1]) = "22.10"
           /\ Decimal_to_string(ResultOf(c).value.asks[2][2]) = "0.50"
           /\ Decimal_to_string(ResultOf(c).value.bids[1][1]) = "21.80"

-----------------------------------------------------------------------------
(* Methods and paths *)

Route(method, path) == [method |-> method, path |-> path]

\* The method and the path of each operation.
RouteOf(op) ==
    CASE op = "get_fill_history" -> Route("GET", API_FILL_HISTORY)
      [] op = "get_order_history" -> Route("GET", API_ORDER_HISTORY)
      [] op = "get_strategy_history" -> Route("GET", API_STRATEGY_HISTORY)
      [] op = "get_account" -> Route("GET", API_ACCOUNT)
      [] op = "get_account_max_borrow" -> Route("GET", API_ACCOUNT_MAX_BORROW)
      [] op = "get_account_max_order_quantity" -> Route("GET", API_ACCOUNT_MAX_ORDER)
      [] op = "get_account_max_withdrawal" -> Route("GET", API_ACCOUNT_MAX_WITHDRAWAL)
      [] op = "update_account" -> Route("PATCH", "/api/v1/account")
      [] op = "convert_dust_balance" -> Route("POST", "/api/v1/account/convertDust")
      [] op = "get_assets" -> Route("GET", API_ASSETS)
      [] op = "get_market" -> Route("GET", API_MARKET)
      [] op = "get_markets" -> Route("GET", API_MARKETS)
      [] op = "get_all_mark_prices" -> Route("GET", API_MARK_PRICES)
      [] op = "get_ticker" -> Route("GET", API_TICKER)
      [] op = "get_tickers" -> Route("GET", API_TICKERS)
      [] op = "get_order_book_depth" -> Route("GET", API_DEPTH)
      [] op = "get_funding_interval_rates" -> Route("GET", API_FUNDING)
      [] op = "get_k_lines" -> Route("GET", API_KLINES)
      [] op = "get_open_future_positions" -> Route("GET", API_FUTURES_POSITION)
      [] op = "get_borrow_lend_positions" -> Route("GET", API_BORROW_LEND_POSITIONS)
      [] op = "get_borrow_lend_markets" -> Route("GET", API_BORROW_LEND_MARKETS)

Operations ==
    {"get_fill_history", "get_order_history", "get_strategy_history", "get_account",
     "get_account_max_borrow", "get_account_max_order_quantity",
     "get_account_max_withdrawal", "update_account", "convert_dust_balance", "get_assets",
     "get_market", "get_markets", "get_all_mark_prices", "get_ticker", "get_tickers",
     "get_order_book_depth", "get_funding_interval_rates", "get_k_lines",
     "get_open_future_positions", "get_borrow_lend_positions", "get_borrow_lend_markets"}

\* The path of a request URL: what follows the base URL, up to the '?'.
PathOfUrl(url) ==
    LET rest == SubSeq(url, Len(ClientBase) + 1, Len(url))
        mark == FirstIndex(rest, "?", 1)
    IN  IF mark = 0 THEN rest ELSE SubSeq(rest, 1, mark - 1)

RequestsInFlight == {c \in callers : calls[c].pc = "awaiting"}

\* C16: every request is sent with the method and the path of its
\* operation: PATCH /api/v1/account for update_account, POST
\* /api/v1/account/convertDust for convert_dust_balance, GET and the
\* operation's own path for every other one, never DELETE or PUT; and no
\* other operation has both the method and the path of the request.
C16_FixedMethodAndPath ==
    \A c \in RequestsInFlight :
        LET request == calls[c].request[1]
            sent == Route(request.method, PathOfUrl(request.url))
        IN  /\ calls[c].op \in Operations
            /\ sent = RouteOf(calls[c].op)
            /\ request.method \notin {"DELETE", "PUT"}
            /\ request.method = "GET" <=> calls[c].op \notin UnitOps
            /\ IsSome(request.body) <=> calls[c].op \in UnitOps
            /\ \A other \in Operations \ {calls[c].op} : RouteOf(other) # sent

\* update_account has sent its PATCH to the path get_account reads with GET.
C16_Witness ==
    \E c \in RequestsInFlight :
        /\ calls[c].op = "update_account"
        /\ calls[c].request[1].method = "PATCH"
        /\ calls[c].request[1].url = "https://api.example.com/api/v1/account"
        /\ RouteOf("get_account").path = PathOfUrl(calls[c].request[1].url)

-----------------------------------------------------------------------------
(* The keys of the WebSocket payloads *)

\* A payload has been decoded.
StreamDecoded == eval.fn = "Stream_deserialize"

HasMember(members, key) == \E i \in 1..Len(members) : members[i][1] = key

ValueAt(members, key) == members[CHOOSE i \in 1..Len(members) : members[i][1] = key][2]

HasAlias(struct, key) ==
    \E k \in 1..Len(StreamFields(struct)) : StreamFields(struct)[k].key = key

\* The field a structure reads from a key.
AliasField(struct, key) ==
    StreamFields(struct)[CHOOSE k \in 1..Len(StreamFields(struct)) :
                            StreamFields(struct)[k].key = key]

\* The structure reads the key into the field of the given name and doc
\* comment, and the decoded value holds under that name what the payload
\* holds under the key.
KeyDecodesInto(key, field, doc) ==
    LET struct == eval.enum
        members == eval.input[1]
        named == AliasField(struct, key)
    IN  /\ HasAlias(struct, key)
        /\ named.field = field
        /\ named.doc = doc
        /\ (IsOk(eval.output[1]) /\ HasMember(members, key))
             => eval.output[1].value[field]
                  = deserialize_field(named.type, ValueAt(members, key)).value

\* The field of each structure that holds the engine timestamp.
EngineTimestampField(struct) ==
    IF struct = "MarkPriceUpdate" THEN "engine_timestamp" ELSE "timestamp"

\* C17 as stated: in every payload structure 'e' is the event type, 'E' the
\* event time and 's' the symbol, and wherever a structure has a key 'T' it
\* is the engine timestamp.
C17_AliasesAsStated ==
    StreamDecoded
    => /\ KeyDecodesInto("e", "event_type", "Event type")
       /\ KeyDecodesInto("E", "event_time", "Event timestamp in microseconds")
       /\ KeyDecodesInto("s", "symbol", "Symbol")
       /\ HasAlias(eval.enum, "T")
            => KeyDecodesInto("T", EngineTimestampField(eval.enum),
                              "Engine timestamp in microseconds")

\* C17: in every payload structure 'e' is the event type, 'E' the event time
\* and 's' the symbol; 'T' is the engine timestamp in PositionUpdate,
\* TickerUpdate, OrderBookDepthUpdate and MarkPriceUpdate, and the close
\* time of the k-line (the field end) in KlineUpdate; OpenInterestUpdate and
\* TickerStatisticsUpdate have no key 'T'.
C17_AliasesPerStructure ==
    StreamDecoded
    => /\ KeyDecodesInto("e", "event_type", "Event type")
       /\ KeyDecodesInto("E", "event_time", "Event timestamp in microseconds")
       /\ KeyDecodesInto("s", "symbol", "Symbol")
       /\ eval.enum \in {"PositionUpdate", "TickerUpdate", "OrderBookDepthUpdate",
                          "MarkPriceUpdate"}
            => KeyDecodesInto("T", EngineTimestampField(eval.enum),
                              "Engine timestamp in microseconds")
       /\ eval.enum = "KlineUpdate"
            => KeyDecodesInto("T", "end", "K-Line close time in seconds")
       /\ eval.enum \in {"OpenInterestUpdate", "TickerStatisticsUpdate"}
            => ~HasAlias(eval.enum, "T")

\* A k-line payload has been decoded: what it holds under 'T' is the end of
\* the k-line, and under 'E' the event time.
C17_Witness ==
    /\ StreamDecoded /\ eval.enum = "KlineUpdate" /\ IsOk(eval.output[1])
    /\ ValueAt(eval.input[1], "T") = JStr("2024-09-11T12:01:00")
    /\ eval.output[1].value.end = "2024-09-11T12:01:00"
    /\ eval.output[1].value.event_time = 1747

-----------------------------------------------------------------------------
(* The mark-price payload *)

MarkPriceKeys == {"E", "T", "e", "f", "i", "n", "p", "s"}

\* A mark-price payload with its eight keys has been decoded.
MarkPriceDecoded ==
    /\ StreamDecoded /\ eval.enum = "MarkPriceUpdate"
    /\ \A key \in MarkPriceKeys : HasMember(eval.input[1], key)

\* The decoded mark price holds what the payload holds under each key, the
\* decimals digit for digit.
MarkPriceAsWritten ==
    LET members == eval.input[1]
        update == eval.output[1].value
    IN  /\ IsOk(eval.output[1])
        /\ update.symbol = ValueAt(members, "s").v
        /\ Decimal_to_string(update.funding_rate) = ValueAt(members, "f").v
        /\ Decimal_to_string(update.mark_price) = ValueAt(members, "p").v
        /\ Decimal_to_string(update.index_price) = ValueAt(members, "i").v
        /\ fmt_u64(update.funding_timestamp) = ValueAt(members, "n").v
        /\ fmt_i64(update.engine_timestamp) = ValueAt(members, "T").v

\* C18: decoding a mark-price payload whose keys E, T, e, f, i, n, p, s come
\* in any order succeeds and gives symbol from 's', funding_rate from 'f',
\* mark_price from 'p', index_price from 'i', funding_timestamp from 'n' and
\* engine_timestamp from 'T', each decimal being exactly the value written.
C18_MarkPriceAnyOrder == MarkPriceDecoded => MarkPriceAsWritten

\* The payload was written with the symbol first and a funding rate of 29
\* fractional digits, which came back with 28.
C18_Witness ==
    /\ MarkPriceDecoded /\ IsOk(eval.output[1])
    /\ eval.input[1][1][1] = "s"
    /\ ValueAt(eval.input[1], "f").v = "-0.00000000000000000000000000015"
    /\ Decimal_to_string(eval.output[1].value.funding_rate)
         = "-0.0000000000000000000000000002"

\* The same for the payloads whose decimals a Decimal can hold.
C18_MarkPriceAnyOrderWithinPrecision ==
    (MarkPriceDecoded /\ \A key \in {"f", "p", "i"} :
                            WithinPrecision(ValueAt(eval.input[1], key).v))
    => MarkPriceAsWritten

\* The payload of the test, written from 's' backwards, has been decoded.
C18_WitnessWithinPrecision ==
    /\ MarkPriceDecoded /\ IsOk(eval.output[1])
    /\ eval.input[1][1][1] = "s" /\ eval.input[1][8][1] = "E"
    /\ eval.output[1].value.symbol = "SOL_USDC_PERP"
    /\ Decimal_to_string(eval.output[1].value.funding_rate)
         = "-0.0000039641039274236048482914"
    /\ Decimal_to_string(eval.output[1].value.mark_price) = "173.35998175"

-----------------------------------------------------------------------------
(* The markets an operation returns *)

\* The markets of the result of a finished get_market or get_markets call.
ReturnedMarkets(c) ==
    IF calls[c].op = "get_market" THEN {ResultOf(c).value}
    ELSE RangeOf(ResultOf(c).value)

MarketCalls ==
    {c \in FinishedCalls : calls[c].op \in {"get_market", "get_markets"} /\ IsOk(ResultOf(c))}

\* A decimal above zero.
IsPositive(d) == ~d.neg /\ \E i \in 1..Len(d.digits) : CharAt(d.digits, i) # "0"

\* C19: every Market that get_market or get_markets returns has a tick_size
\* and a step_size strictly above zero.
C19_ReturnedStepsPositive ==
    \A c \in MarketCalls : \A market \in ReturnedMarkets(c) :
        /\ IsPositive(market.filters.price.tick_size)
        /\ IsPositive(market.filters.quantity.step_size)

\* get_markets has returned two markets, the second with a tick size and a
\* step size of zero, as its 200 response had them.
C19_Witness ==
    \E c \in MarketCalls :
        /\ calls[c].op = "get_markets"
        /\ ResponseOf(c).status = 200
        /\ Len(ResultOf(c).value) = 2
        /\ Decimal_to_string(ResultOf(c).value[2].filters.price.tick_size) = "0.00"
        /\ Decimal_to_string(ResultOf(c).value[2].filters.quantity.step_size) = "0"

-----------------------------------------------------------------------------
(* The endpoints with mandatory parameters *)

ParameterOps ==
    {"get_account_max_order_quantity", "get_account_max_withdrawal", "get_k_lines",
     "get_open_future_positions"}

ParameterRequests == {c \in RequestsInFlight : calls[c].op \in ParameterOps}

KeyIf(option, key) == IF IsSome(option) THEN <<key>> ELSE <<>>

\* The keys of a request: the mandatory ones, then those of the optional
\* parameters that are set, in the order the parameters are declared.
DeclaredKeys(op, a) ==
    CASE op = "get_account_max_order_quantity" ->
           <<"symbol", "side">> \o KeyIf(a.price, "price")
           \o KeyIf(a.reduce_only, "reduceOnly") \o KeyIf(a.auto_borrow, "autoBorrow")
           \o KeyIf(a.auto_borrow_repay, "autoBorrowRepay")
           \o KeyIf(a.auto_lend_redeem, "autoLendRedeem")
      [] op = "get_account_max_withdrawal" ->
           <<"symbol">> \o KeyIf(a.auto_borrow, "autoBorrow")
           \o KeyIf(a.auto_lend_redeem, "autoLendRedeem")
      [] op = "get_k_lines" ->
           <<"symbol", "interval", "startTime">> \o KeyIf(a.end_time, "endTime")
           \o KeyIf(a.price_type, "priceType")
      [] op = "get_open_future_positions" -> KeyIf(a, "symbol")

\* The symbol of a request, empty when none is given.
SymbolOf(op, a) ==
    IF op = "get_open_future_positions" THEN (IF IsSome(a) THEN a[1] ELSE "") ELSE a.symbol

-----------------------------------------------------------------------------
(* The order of the steps of an operation *)

StepsOf(c) == calls[c].steps

SentSteps == <<"build_url", "transport_call">>

\* C21: the steps of every operation occur in the order build URL, transport
\* call, decode; when the transport call returns a failure (a transport
\* failure or a non-2xx response) the operation returns exactly that failure,
\* the body is never decoded and no value is substituted; update_account and
\* convert_dust_balance never decode: they return success on every 2xx
\* response, whatever its body, and never a decode error.
C21_FailureBeforeDecode ==
    \A c \in callers :
        /\ calls[c].pc = "idle" => StepsOf(c) = <<>>
        /\ calls[c].pc = "awaiting" => StepsOf(c) = SentSteps
        /\ calls[c].pc = "done" =>
             /\ StepsOf(c) \in {SentSteps, SentSteps \o <<"decode">>}
             /\ ~IsHttpSuccess(ResponseOf(c)) =>
                  /\ StepsOf(c) = SentSteps
                  /\ ~IsOk(ResultOf(c))
                  /\ ResultOf(c).kind # "DecodeError"
                  /\ ResultOf(c) = BpxClient_send(ResponseOf(c))
             /\ calls[c].op \in UnitOps =>
                  /\ StepsOf(c) = SentSteps
                  /\ ResultOf(c).kind # "DecodeError"
                  /\ IsHttpSuccess(ResponseOf(c)) => IsOk(ResultOf(c))
             /\ ResultOf(c).kind = "DecodeError" => StepsOf(c) = SentSteps \o <<"decode">>
             /\ (IsOk(ResultOf(c)) /\ calls[c].op \notin UnitOps) =>
                  StepsOf(c) = SentSteps \o <<"decode">>

\* convert_dust_balance answered by a 200 whose body is not JSON returns
\* success without having decoded it.
C21_Witness ==
    \E c \in FinishedCalls :
        /\ calls[c].op = "convert_dust_balance"
        /\ IsHttpSuccess(ResponseOf(c))
        /\ ResponseOf(c).body.t = "invalid"
        /\ IsOk(ResultOf(c))
        /\ StepsOf(c) = SentSteps

-----------------------------------------------------------------------------
(* The enumerations rendered into a query string *)

QueryEnums == {FillType, MarketType, SortDirection}

QueryEnumNames == {e.name : e \in QueryEnums}

QueryEnumFields == {"fill_type", "market_type", "sort_direction"}

EnumOfField(field) ==
    CASE field = "fill_type" -> FillType
      [] field = "market_type" -> MarketType
      [] field = "sort_direction" -> SortDirection

\* Both parsers return the variant v for the text.
BothParseTo(e, text, v) ==
    /\ strum_from_str(e, text) = Ok(v)
    /\ serde_deserialize(e, text) = Ok(v)

\* C22: for FillType, MarketType and SortDirection, the Display text of every
\* variant, which is what a history operation writes after the key in the
\* query string, is the string the variant has in JSON, and FromStr parses
\* that text to the variant JSON decoding gives for it.
C22_QueryTextIsJsonText ==
    /\ (eval.fn = "strum_display" /\ eval.enum \in QueryEnumNames) =>
           LET e == EnumNamed(eval.enum)
           IN  /\ eval.output[1] = serde_serialize(e, eval.input[1])
               /\ BothParseTo(e, eval.output[1], eval.input[1])
    /\ (eval.fn = "strum_from_str" /\ eval.enum \in QueryEnumNames) =>
           LET e == EnumNamed(eval.enum)
           IN  (\E v \in VariantsOf(e) : strum_display(e, v) = eval.input[1]) =>
                   eval.output[1] = serde_deserialize(e, eval.input[1])
    /\ \A c \in HistoryRequests :
         \A f \in QueryEnumFields \cap RangeOf(SetFields(calls[c].op, ArgsOf(c))) :
           LET e == EnumOfField(f)
               v == ArgsOf(c)[f][1]
               pairs == ServerPairs(QueryOfCall(c))
           IN  /\ \E i \in 1..Len(pairs) : pairs[i] = f \o "=" \o serde_serialize(e, v)
               /\ BothParseTo(e, strum_display(e, v), v)

\* Display of MarketType::Iperp gives IPERP, its JSON string.
C22_Witness ==
    /\ eval.fn = "strum_display"
    /\ eval.enum = "MarketType"
    /\ eval.input = Some("Iperp")
    /\ eval.output = Some("IPERP")
    /\ serde_serialize(MarketType, "Iperp") = "IPERP"

-----------------------------------------------------------------------------
(* Search parameters through JSON and back *)

DefaultedFields == {"limit", "offset"}

DefaultOf(field) == IF field = "limit" THEN 100 ELSE 0

\* C23: serializing a search-parameter structure to JSON and decoding the
\* result succeeds and gives back every field as it was, except that an
\* unset limit comes back as 100 and an unset offset as 0 (a set limit or
\* offset is preserved); Default::default() leaves limit and offset unset,
\* and an explicit null for limit or offset decodes to unset.
C23_JsonRoundTripUpToDefaults ==
    /\ \A struct \in SearchParamsStructs : \A f \in DefaultedFields :
           SearchParams_default(struct)[f] = None
    /\ (eval.fn = "SearchParams_serialize") =>
           LET p == eval.input[1]
               back == SearchParams_deserialize(eval.enum, eval.output[1])
           IN  /\ IsOk(back)
               /\ DOMAIN back.value = DOMAIN p
               /\ \A f \in DOMAIN p :
                      IF f \in DefaultedFields /\ p[f] = None
                      THEN back.value[f] = Some(DefaultOf(f))
                      ELSE back.value[f] = p[f]
    /\ (eval.fn = "SearchParams_deserialize") =>
           \A f \in DefaultedFields :
               (f \in DOMAIN eval.input[1] /\ eval.input[1][f].t = "null") =>
                   /\ eval.output[1].kind = "DecodeError" => eval.output[1].detail # f
                   /\ IsOk(eval.output[1]) => eval.output[1].value[f] = None

\* The default fill-history structure serializes to the empty object and
\* comes back with limit 100 and offset 0.
C23_Witness ==
    /\ eval.fn = "SearchParams_serialize"
    /\ eval.enum = "FillHistorySearchParams"
    /\ eval.input = Some(SearchParams_default("FillHistorySearchParams"))
    /\ DOMAIN eval.output[1].v = {}
    /\ SearchParams_deserialize(eval.enum, eval.output[1]).value.limit = Some(100)
    /\ SearchParams_deserialize(eval.enum, eval.output[1]).value.offset = Some(0)

\* A structure with limit 50 and offset 0 set comes back as it was.
C23_WitnessSet ==
    /\ eval.fn = "SearchParams_serialize"
    /\ eval.input[1].limit = Some(50)
    /\ eval.input[1].offset = Some(0)
    /\ eval.input[1].symbol = Some("X&limit=5")
    /\ SearchParams_deserialize(eval.enum, eval.output[1]) = Ok(eval.input[1])

-----------------------------------------------------------------------------
(* Unset limit and offset in the history requests *)

\* The number of places where sub occurs in s.
CountSub(s, sub) ==
    Cardinality({i \in 1..(Len(s) - Len(sub) + 1) : SubSeq(s, i, i + Len(sub) - 1) = sub})

\* The caller's string for a field, empty when the field is unset or not a
\* field of the structure.
StringArg(c, field) ==
    IF field \in DOMAIN ArgsOf(c) /\ IsSome(ArgsOf(c)[field]) THEN ArgsOf(c)[field][1] ELSE ""

\* The occurrences of sub inside the caller's own string values.
OwnCount(c, sub) ==
    CountSub(StringArg(c, "order_id"), sub) + CountSub(StringArg(c, "strategy_id"), sub)
        + CountSub(StringArg(c, "symbol"), sub)

\* C24: a history operation never adds limit or offset to the request when
\* the caller left them unset: with limit (offset) unset the emitted query
\* string does not contain "limit=" ("offset="), a server reads no such key
\* from it, and the defaults 100 and 0 are not written into it.
C24_NoLimitNoOffsetInQuery ==
    \A c \in HistoryRequests :
        \A f \in DefaultedFields :
            (ArgsOf(c)[f] = None) =>
                /\ CountSub(QueryOfCall(c), f \o "=") = 0
                /\ f \notin ServerKeys(QueryOfCall(c))
                /\ \A i \in 1..Len(ServerPairs(QueryOfCall(c))) :
                       ServerPairs(QueryOfCall(c))[i] # f \o "=" \o fmt_u64(DefaultOf(f))

\* A fill-history request whose symbol spells a limit pair, limit unset: the
\* query holds "limit=" and a server reads the key limit.
C24_Witness ==
    \E c \in HistoryRequests :
        /\ calls[c].op = "get_fill_history"
        /\ ArgsOf(c).limit = None
        /\ ArgsOf(c).symbol = Some("X&limit=5")
        /\ QueryOfCall(c) = "?symbol=X&limit=5"
        /\ CountSub(QueryOfCall(c), "limit=") = 1
        /\ "limit" \in ServerKeys(QueryOfCall(c))

\* What the encoders themselves add: with limit (offset) unset the query
\* holds no "limit=" ("offset=") beyond what the caller's own strings hold,
\* so none at all for the default structure and for strings without
\* delimiters; a server then reads no such key and no default is written.
C24_UnsetLimitOffsetNotWritten ==
    \A c \in HistoryRequests :
        /\ (\A f \in DOMAIN ArgsOf(c) : ArgsOf(c)[f] = None) => QueryOfCall(c) = ""
        /\ \A f \in DefaultedFields :
             (ArgsOf(c)[f] = None) =>
                 /\ CountSub(QueryOfCall(c), f \o "=") = OwnCount(c, f \o "=")
                 /\ IsPlainCall(c) =>
                      /\ CountSub(QueryOfCall(c), f \o "=") = 0
                      /\ f \notin ServerKeys(QueryOfCall(c))
                      /\ \A i \in 1..Len(ServerPairs(QueryOfCall(c))) :
                             ServerPairs(QueryOfCall(c))[i] # f \o "=" \o fmt_u64(DefaultOf(f))

\* A fill-history request with a time filter and a symbol, limit and offset
\* unset: the query is those two pairs.
C24_WitnessPlain ==
    \E c \in HistoryRequests :
        /\ calls[c].op = "get_fill_history"
        /\ ArgsOf(c).limit = None
        /\ ArgsOf(c).offset = None
        /\ QueryOfCall(c) = "?from=0&symbol=SOL_USDC"

====
